---- MODULE Spec2Model ----
(***************************************************************************)
(* Error-enrichment and verification pipeline of the ADF pipeline          *)
(* debugger: KnowledgeBase (regex catalog), VectorKnowledgeBase (semantic  *)
(* catalog), ErrorAnalyzer (merge, synthesis, fallback, report merge) and  *)
(* FactCheckingAgent.                                                      *)
(*                                                                         *)
(* Python values are modelled as follows: a dict is a record (a function   *)
(* on its set of keys), a list is a sequence, None in a dict-valued slot   *)
(* is the record None, similarities and confidence scores are integers in  *)
(* thousandths (0.30 is 300).  A text built by an f-string is the sequence *)
(* of its pieces.                                                          *)
(***************************************************************************)
EXTENDS Integers, Sequences, FiniteSets, TLC

\* ------------------------------------------------------------------ bounds
MaxMsgLen == 3
MaxCatalog == 3
MaxSols == 2
MaxAnalyzeMsgLen == 1

\* ------------------------------------------------------- python primitives
None == [none |-> TRUE]

\* dict.get(k, default)
Get(d, k, default) == IF k \in DOMAIN d THEN d[k] ELSE default

\* d[k] = v on a copy of d
Put(d, k, v) == (k :> v) @@ d

\* lst[:n]
Take(lst, n) == SubSeq(lst, 1, IF Len(lst) < n THEN Len(lst) ELSE n)

\* set(lst)
Elems(lst) == {lst[i] : i \in DOMAIN lst}

\* --------------------------------------------------------------- messages
\* An error message is absent (None) or a string over a small alphabet that
\* has one letter in both cases, since the catalog is matched with
\* re.IGNORECASE.
Alphabet == {"a", "A", "b"}

Lower(c) == IF c = "A" THEN "a" ELSE c

RECURSIVE StringsUpTo(_)
StringsUpTo(n) ==
    IF n = 0 THEN {<<>>}
    ELSE LET shorter == StringsUpTo(n - 1)
         IN shorter \cup {Append(s, c) : s \in {t \in shorter : Len(t) = n - 1},
                                         c \in Alphabet}

NoneMsg == [is_none |-> TRUE, text |-> <<>>]
Msg(text) == [is_none |-> FALSE, text |-> text]
Messages == {NoneMsg} \cup {Msg(t) : t \in StringsUpTo(MaxMsgLen)}

\* `not error_message`
Falsy(msg) == msg.is_none \/ msg.text = <<>>

\* ------------------------------------------------------ regular expressions
\* A catalog pattern is an alternation of literals ("a|b", "ab"), the empty
\* pattern "" (what error.get("pattern", "") gives for an entry without the
\* key), or a string that does not compile.  Compiling a string that is not a
\* regular expression raises re.error ("(", "a{2,1}") or, for a repetition
\* count beyond the engine's limit ("a{99999999999999999999}"), OverflowError,
\* which is not a subclass of re.error.
Lit(s) == [valid |-> TRUE, alts |-> <<s>>, error |-> "none"]
Alt(s, t) == [valid |-> TRUE, alts |-> <<s, t>>, error |-> "none"]
EmptyPattern == [valid |-> TRUE, alts |-> << <<>> >>, error |-> "none"]
InvalidPattern == [valid |-> FALSE, alts |-> <<>>, error |-> "re.error"]
OverflowPattern == [valid |-> FALSE, alts |-> <<>>, error |-> "OverflowError"]

MatchesAt(alt, text, i) ==
    /\ i + Len(alt) - 1 <= Len(text)
    /\ \A k \in 1..Len(alt) : Lower(text[i + k - 1]) = Lower(alt[k])

RECURSIVE FirstAlt(_, _, _, _)
FirstAlt(alts, text, i, j) ==
    IF j > Len(alts) THEN 0
    ELSE IF MatchesAt(alts[j], text, i) THEN j
    ELSE FirstAlt(alts, text, i, j + 1)

\* len(re.findall(pattern, text, re.IGNORECASE)): leftmost, non-overlapping
\* matches; the empty pattern matches once at every position, Len(text)+1
\* times in all.
RECURSIVE findall_from(_, _, _)
findall_from(alts, text, i) ==
    IF i > Len(text) + 1 THEN 0
    ELSE LET j == FirstAlt(alts, text, i, 1)
         IN IF j = 0 THEN findall_from(alts, text, i + 1)
            ELSE IF Len(alts[j]) = 0 THEN 1 + findall_from(alts, text, i + 1)
            ELSE 1 + findall_from(alts, text, i + Len(alts[j]))

findall_count(pattern, text) == findall_from(pattern.alts, text, 1)

\* -------------------------------------------------------- KnowledgeBase
\* KnowledgeBase.runbooks: category -> runbook.
runbooks ==
    [connectivity |-> [title |-> <<"rb_conn">>, steps |-> <<"st1", "st2">>,
                       estimated_time |-> "10 min", prevention |-> <<"pv1">>],
     timeout |-> [title |-> <<"rb_timeout">>, steps |-> <<>>],
     resource |-> [title |-> <<"rb_resource">>,
                   steps |-> <<"st1", "st2", "st3", "st4", "st5", "st6", "st7", "st8", "st9">>,
                   estimated_time |-> "1 hour"]]

get_runbook(category) == Get(runbooks, category, None)

\* `if score > best_score` as a bug would have it: a later entry with an equal
\* count replaces the current best.
better_tie(score, best_score) == score >= best_score

\* `if score > best_score`
better(score, best_score) == score > best_score

\* What match_scan gives when an exception leaves the loop.
Raised == 0 - 1

\* `except re.error`
caught(error) == error = "re.error"

\* The loop of match_error from entry i on; best_match is the index of the
\* entry held so far (0 for None): the result is a reference into the catalog,
\* or Raised when re.findall raised something the except clause does not
\* catch.
RECURSIVE match_scan(_, _, _, _, _)
match_scan(errs, text, i, best_match, best_score) ==
    IF i > Len(errs) THEN best_match
    ELSE LET pattern == Get(errs[i], "pattern", EmptyPattern)
         IN IF ~pattern.valid
            THEN (IF caught(pattern.error)
                  THEN match_scan(errs, text, i + 1, best_match, best_score)
                  ELSE Raised)
            ELSE LET score == findall_count(pattern, text)
                 IN IF score > 0 /\ better(score, best_score)
                    THEN match_scan(errs, text, i + 1, i, score)
                    ELSE match_scan(errs, text, i + 1, best_match, best_score)

match_error(errs, msg) ==
    IF Falsy(msg) THEN 0 ELSE match_scan(errs, msg.text, 1, 0, 0)

\* KnowledgeBase.get_enrichment(msg) where match_error returns; an exception
\* of match_error leaves get_enrichment as well.
kb_get_enrichment(errs, msg) ==
    LET idx == match_error(errs, msg)
        enrichment == [pattern_matched |-> idx # 0,
                       error_entry |-> IF idx = 0 THEN None ELSE errs[idx],
                       runbook |-> None,
                       category |-> "unknown",
                       known_causes |-> <<>>,
                       known_solutions |-> <<>>,
                       severity |-> "medium",
                       estimated_fix_time |-> "unknown",
                       documentation_links |-> <<>>]
    IN IF idx = 0 THEN enrichment
       ELSE LET matched == errs[idx]
                category == Get(matched, "category", "unknown")
            IN [enrichment EXCEPT
                  !.category = category,
                  !.known_causes = Get(matched, "common_causes", <<>>),
                  !.known_solutions = Get(matched, "solutions", <<>>),
                  !.severity = Get(matched, "severity", "medium"),
                  !.estimated_fix_time = Get(matched, "estimated_fix_time", "unknown"),
                  !.documentation_links = Get(matched, "docs", <<>>),
                  !.runbook = get_runbook(category)]

\* -------------------------------------------- ErrorAnalyzer: merge step
\* The loop without its membership test: every semantic solution is appended.
append_all(lst, vector_solutions, existing_solutions) == lst \o vector_solutions

\* The loop `for sol in vector_solutions: if sol not in existing_solutions:
\* append`; existing_solutions is computed once, before the loop.
RECURSIVE append_new(_, _, _)
append_new(lst, vector_solutions, existing_solutions) ==
    IF vector_solutions = <<>> THEN lst
    ELSE LET sol == Head(vector_solutions)
         IN append_new(IF sol \notin existing_solutions THEN Append(lst, sol) ELSE lst,
                       Tail(vector_solutions), existing_solutions)

\* The enrichment object enr once its known_solutions list holds sols.  In a
\* regex enrichment that list is the list object matched["solutions"] of the
\* catalog entry whenever the entry has the key (get_enrichment stores
\* matched.get("solutions", [])), and error_entry is that entry.
with_solutions(enr, sols) ==
    LET e1 == Put(enr, "known_solutions", sols)
    IN IF /\ "error_entry" \in DOMAIN enr
          /\ enr.error_entry # None
          /\ "solutions" \in DOMAIN enr.error_entry
       THEN Put(e1, "error_entry", Put(enr.error_entry, "solutions", sols))
       ELSE e1

\* The both-matched branch started from the wrong dict, merged = dict(vector_kb).
merge_both_from_vector(regex_kb_, vector_kb_) ==
    LET sols == Get(vector_kb_, "known_solutions", <<>>)
                  \o SelectSeq(Get(regex_kb_, "known_solutions", <<>>),
                               LAMBDA x : x \notin Elems(Get(vector_kb_, "known_solutions", <<>>)))
        merged0 == Put(vector_kb_, "known_solutions", sols)
        merged1 == Put(merged0, "prevention", Get(vector_kb_, "prevention", <<>>))
        merged2 == Put(merged1, "similar_errors", Get(vector_kb_, "similar_errors", <<>>))
    IN Put(merged2, "match_confidence", Get(vector_kb_, "match_confidence", 0))

\* The both-matched branch of _merge_kb_enrichments.  merged = dict(regex_kb)
\* is a shallow copy, so the appends go to the list object of
\* regex_kb["known_solutions"].
merge_both(regex_kb_, vector_kb_) ==
    LET vector_solutions == Get(vector_kb_, "known_solutions", <<>>)
        own == Get(regex_kb_, "known_solutions", <<>>)
        existing_solutions == Elems(own)
        sols == append_new(own, vector_solutions, existing_solutions)
        \* setdefault creates the key only when something is appended
        merged0 == IF sols = own THEN regex_kb_ ELSE with_solutions(regex_kb_, sols)
        merged1 == Put(merged0, "prevention",
                       Get(vector_kb_, "prevention", Get(merged0, "prevention", <<>>)))
        merged2 == Put(merged1, "similar_errors", Get(vector_kb_, "similar_errors", <<>>))
    IN Put(merged2, "match_confidence", Get(vector_kb_, "match_confidence", 0))

\* The merge without its single-match returns: whenever one side matched the
\* semantic fields are written over the regex enrichment.
merge_kb_enrichments_no_shortcut(regex_kb_, vector_kb_) ==
    LET vm == Get(vector_kb_, "pattern_matched", FALSE)
        rm == Get(regex_kb_, "pattern_matched", FALSE)
    IN IF ~vm /\ ~rm THEN regex_kb_
       ELSE Put(Put(Put(regex_kb_, "prevention", Get(vector_kb_, "prevention", <<>>)),
                    "similar_errors", Get(vector_kb_, "similar_errors", <<>>)),
                "match_confidence", Get(vector_kb_, "match_confidence", 0))

\* _merge_kb_enrichments(regex_kb, vector_kb): the dict it returns.
merge_kb_enrichments(regex_kb_, vector_kb_) ==
    LET vm == Get(vector_kb_, "pattern_matched", FALSE)
        rm == Get(regex_kb_, "pattern_matched", FALSE)
    IN IF ~vm /\ ~rm THEN regex_kb_
       ELSE IF vm /\ ~rm THEN vector_kb_
       ELSE IF rm /\ ~vm THEN regex_kb_
       ELSE merge_both(regex_kb_, vector_kb_)

\* The object regex_kb after the call: in the both-matched branch the list
\* regex_kb["known_solutions"] has received the appended solutions.
regex_kb_after_merge(regex_kb_, vector_kb_) ==
    IF /\ Get(vector_kb_, "pattern_matched", FALSE)
       /\ Get(regex_kb_, "pattern_matched", FALSE)
       /\ "known_solutions" \in DOMAIN regex_kb_
    THEN with_solutions(regex_kb_, merge_both(regex_kb_, vector_kb_).known_solutions)
    ELSE regex_kb_

\* -------------------------------------------------- VectorKnowledgeBase
\* ADF_ERROR_KNOWLEDGE, the semantic catalog: a literal table of 30 entries,
\* all with the same eleven keys, unique ids, three to six distinct solutions
\* and one documentation URL each; never written to.  Two entries stand for it.
ADF_ERROR_KNOWLEDGE ==
    << [id |-> "v1", category |-> "connectivity", severity |-> "high",
        title |-> "vt1", error_pattern |-> "vp1", description |-> "vd1",
        causes |-> <<"c1", "c2", "c3">>,
        solutions |-> <<"s1", "s2", "s3">>,
        prevention |-> <<"pv2", "pv3">>,
        estimated_fix_time |-> "15-45 minutes",
        documentation |-> <<"u1">>],
       [id |-> "v2", category |-> "quota", severity |-> "medium",
        title |-> "vt2", error_pattern |-> "vp2", description |-> "vd2",
        causes |-> <<"c4", "c5", "c6">>,
        solutions |-> <<"s4", "s5", "s6">>,
        prevention |-> <<"pv4">>,
        estimated_fix_time |-> "5-15 minutes",
        documentation |-> <<"u2">>] >>

CatalogIds == {ADF_ERROR_KNOWLEDGE[i].id : i \in DOMAIN ADF_ERROR_KNOWLEDGE}

SIMILARITY_FLOOR == 300

\* next((e for e in ADF_ERROR_KNOWLEDGE if e["id"] == doc_id), None)
entry_by_id(doc_id) ==
    LET hits == {i \in DOMAIN ADF_ERROR_KNOWLEDGE : ADF_ERROR_KNOWLEDGE[i].id = doc_id}
    IN IF hits = {} THEN None
       ELSE ADF_ERROR_KNOWLEDGE[CHOOSE i \in hits : \A j \in hits : i <= j]

\* search(): response is what collection.query returned, a ranked sequence of
\* [id, distance]; ids without a catalog entry are dropped.
RECURSIVE search(_)
search(response) ==
    IF response = <<>> THEN <<>>
    ELSE LET entry == entry_by_id(Head(response).id)
             distance == Head(response).distance
         IN IF entry = None THEN search(Tail(response))
            ELSE <<[entry |-> entry, similarity |-> 1000 - distance,
                    distance |-> distance]>> \o search(Tail(response))

\* The dict get_enrichment returns for an accepted best match.
enrichment_of(best, matches) ==
    LET entry == best.entry
    IN [pattern_matched |-> TRUE,
        match_confidence |-> best.similarity,
        error_entry |-> entry,
        category |-> entry.category,
        severity |-> entry.severity,
        known_causes |-> entry.causes,
        known_solutions |-> entry.solutions,
        prevention |-> Get(entry, "prevention", <<>>),
        estimated_fix_time |-> Get(entry, "estimated_fix_time", "unknown"),
        documentation_links |-> Get(entry, "documentation", <<>>),
        runbook |-> [title |-> <<"Troubleshoot: ", entry.title>>,
                     steps |-> Take(entry.solutions, 8),
                     estimated_time |-> Get(entry, "estimated_fix_time", "15-30 minutes"),
                     prevention |-> Get(entry, "prevention", <<>>)],
        similar_errors |-> [i \in 1..(Len(Take(matches, 3)) - 1) |->
                              [title |-> matches[i + 1].entry.title,
                               similarity |-> matches[i + 1].similarity]]]

\* get_enrichment with the floor test written `<= 0.3`.
vector_get_enrichment_exclusive(msg, response) ==
    IF Falsy(msg) THEN [pattern_matched |-> FALSE]
    ELSE LET matches == search(response)
         IN IF matches = <<>> THEN [pattern_matched |-> FALSE]
            ELSE LET best == matches[1]
                 IN IF best.similarity <= SIMILARITY_FLOOR
                    THEN [pattern_matched |-> FALSE, closest_match |-> best.entry.title]
                    ELSE enrichment_of(best, matches)

\* VectorKnowledgeBase.get_enrichment(msg), given the store's response to its
\* query.
vector_get_enrichment(msg, response) ==
    IF Falsy(msg) THEN [pattern_matched |-> FALSE]
    ELSE LET matches == search(response)
         IN IF matches = <<>> THEN [pattern_matched |-> FALSE]
            ELSE LET best == matches[1]
                 IN IF best.similarity < SIMILARITY_FLOOR
                    THEN [pattern_matched |-> FALSE, closest_match |-> best.entry.title]
                    ELSE enrichment_of(best, matches)

\* The ChromaDB collection "adf_errors" is a map from document id to what was
\* stored under it; it outlives the process (PersistentClient).
EmptyStore == <<>>

\* collection.count()
count(st) == Cardinality(DOMAIN st)

\* `if self.collection.count() == 0` with the test dropped: populate always.
needs_population_always(st) == TRUE

\* `if self.collection.count() == 0`
needs_population(st) == count(st) = 0

\* The metadatas and ids _populate_knowledge_base builds, one per entry of
\* ADF_ERROR_KNOWLEDGE.
population ==
    [i \in DOMAIN ADF_ERROR_KNOWLEDGE |->
       [id |-> ADF_ERROR_KNOWLEDGE[i].id,
        category |-> ADF_ERROR_KNOWLEDGE[i].category,
        severity |-> ADF_ERROR_KNOWLEDGE[i].severity,
        title |-> ADF_ERROR_KNOWLEDGE[i].title,
        estimated_fix_time |-> Get(ADF_ERROR_KNOWLEDGE[i], "estimated_fix_time", "unknown")]]

\* collection.add(documents, metadatas, ids) when it returns: the ids not yet
\* in the collection are stored; an id already there keeps what it has.
collection_add(st, batch) ==
    [id \in DOMAIN st \cup {batch[i].id : i \in DOMAIN batch} |->
       IF id \in DOMAIN st THEN st[id]
       ELSE batch[CHOOSE i \in DOMAIN batch : batch[i].id = id]]

\* What collection.add does with an id the collection already has depends on
\* the ChromaDB release: it leaves the stored document alone and returns, or
\* it raises a duplicate-id error.
AddOutcomes(st, batch) ==
    IF \E i \in DOMAIN batch : batch[i].id \in DOMAIN st
    THEN {"returns", "raises"}
    ELSE {"returns"}

\* ------------------------------------------ dashboard: /api/agent_search
\* One element of top_matches, built from match.get("metadata", {}).
agent_result(match) ==
    LET meta == Get(match, "metadata", <<>>)
    IN [title |-> Get(meta, "title", "Unknown Error"),
        description |-> Get(meta, "description", "No description available"),
        solution |-> Get(meta, "solutions",
                         Get(meta, "solution", <<"No solution provided">>)),
        severity |-> Get(meta, "severity", "medium")]

\* api_agent_search(): the status and JSON body of the response, for the
\* request body data and the outcome of vector_kb.search(query, n_results=3)
\* (it raised, or returned matches).
api_agent_search(vector_kb_available, data, raised, matches) ==
    IF ~vector_kb_available
    THEN [status |-> 503, json |-> [error |-> "Vector search is not available"]]
    ELSE IF data = None \/ DOMAIN data = {} \/ "query" \notin DOMAIN data
    THEN [status |-> 400, json |-> [error |-> "Missing required \"query\" in JSON body"]]
    ELSE IF raised
    THEN [status |-> 500, json |-> [success |-> FALSE, error |-> "str(e)"]]
    ELSE [status |-> 200,
          json |-> [success |-> TRUE, query |-> data.query,
                    top_matches |-> [i \in DOMAIN matches |-> agent_result(matches[i])]]]

\* ------------------------------------------------------------ utils
\* truncate_string(s, max_length) on an error message.
truncate_string(msg, max_length) ==
    IF Falsy(msg) THEN <<>>
    ELSE IF Len(msg.text) <= max_length THEN msg.text
    ELSE SubSeq(msg.text, 1, max_length) \o <<"...">>

\* sep.join(lst), as the sequence of its pieces
RECURSIVE Join(_, _)
Join(lst, sep) ==
    IF lst = <<>> THEN <<>>
    ELSE IF Len(lst) = 1 THEN <<lst[1]>>
    ELSE <<lst[1], sep>> \o Join(Tail(lst), sep)

\* a text is the empty string iff all its pieces are
TextEmpty(t) == \A i \in DOMAIN t : t[i] = ""

\* -------------------------------------------- ErrorAnalyzer: synthesis
\* What json.loads can return: a dict, or a value that is not one.
JObj(d) == [py |-> "dict", v |-> d]
JList == [py |-> "list", v |-> <<>>]

\* A response of the generative model is a sequence of lines: a code-fence
\* marker, a JSON document, or text that is not JSON.
Fence == [line |-> "fence", value |-> JList]
JsonLine(value) == [line |-> "json", value |-> value]
TextLine == [line |-> "text", value |-> JList]

\* `if response_text.startswith("```")`: drop every line that starts with a
\* fence marker.
strip_fences(lines) ==
    IF lines # <<>> /\ lines[1].line = "fence"
    THEN SelectSeq(lines, LAMBDA l : l.line # "fence")
    ELSE lines

\* json.loads: the parsed value, or JSONDecodeError.
json_loads(lines) ==
    IF Len(lines) = 1 /\ lines[1].line = "json"
    THEN [ok |-> TRUE, value |-> lines[1].value]
    ELSE [ok |-> FALSE, value |-> JList]

\* _fallback_analysis without the slice [:5]: one solution for every known
\* solution.
fallback_analysis_uncut(error_details, kb_enrichment_) ==
    LET kb_matched == Get(kb_enrichment_, "pattern_matched", FALSE)
        error_entry == Get(kb_enrichment_, "error_entry", <<>>)
        pipeline == Get(error_details, "pipeline_name", "Unknown")
        activity == Get(error_details, "failing_activity_name", "Unknown")
        error_msg == Get(error_details, "primary_error_message", Msg(<<"No details">>))
        runbook == Get(kb_enrichment_, "runbook", None)
        has_runbook == runbook # None /\ DOMAIN runbook # {}
        known == [i \in DOMAIN Get(kb_enrichment_, "known_solutions", <<>>) |->
                    [title |-> <<Get(kb_enrichment_, "known_solutions", <<>>)[i]>>,
                     steps |-> <<>>,
                     estimated_time |-> Get(kb_enrichment_, "estimated_fix_time", "15-30 minutes"),
                     likelihood |-> IF i = 1 THEN "high" ELSE "medium"]]
        runbook_steps == IF has_runbook THEN Get(runbook, "steps", <<>>) ELSE <<>>
        joined == Join(Take(Get(kb_enrichment_, "known_causes", <<>>), 3), ". ")
        prevention == IF kb_matched /\ has_runbook THEN Get(runbook, "prevention", <<>>) ELSE <<>>
    IN [plain_english_error |->
            IF kb_matched
            THEN <<"The pipeline '", pipeline, "' failed at activity '", activity, "'. ",
                   "This is a known error: ", Get(error_entry, "title", ""), ". ",
                   Get(error_entry, "description", "")>>
            ELSE <<"The pipeline '", pipeline, "' failed at activity '", activity, "'. ",
                   "Error: ">> \o truncate_string(error_msg, 300),
        root_cause |->
            IF kb_matched
            THEN (IF TextEmpty(joined) THEN <<"See known causes above">> ELSE joined)
            ELSE <<"Could not automatically determine root cause. Please review the error message.">>,
        category |-> IF kb_matched THEN Get(kb_enrichment_, "category", "unknown") ELSE "unknown",
        severity |-> IF kb_matched THEN Get(kb_enrichment_, "severity", "medium") ELSE "medium",
        solutions |->
            IF kb_matched
            THEN (IF runbook_steps # <<>>
                  THEN <<[title |-> <<"Follow Runbook: ">>
                                      \o Get(runbook, "title", <<"Troubleshooting Guide">>),
                          steps |-> Take(runbook_steps, 8),
                          estimated_time |-> Get(runbook, "estimated_time", "15-30 minutes"),
                          likelihood |-> "high"]>> \o known
                  ELSE known)
            ELSE <<[title |-> <<"Manual Investigation">>,
                    steps |-> <<"Open Azure Data Factory Monitor",
                                "Find the pipeline run with ID",
                                "Review the failing activity error details",
                                "Check the activity input/output for data issues",
                                "Review linked service connections">>,
                    estimated_time |-> "15-30 minutes",
                    likelihood |-> "medium"]>>,
        preventive_measures |->
            IF prevention # <<>> THEN prevention
            ELSE <<"Add monitoring alerts for pipeline failures",
                   "Implement retry policies on activities",
                   "Add data validation activities">>,
        related_documentation |->
            [i \in DOMAIN Get(kb_enrichment_, "documentation_links", <<>>) |->
               [title |-> Get(kb_enrichment_, "documentation_links", <<>>)[i],
                url |-> Get(kb_enrichment_, "documentation_links", <<>>)[i]]],
        additional_checks |-> <<>>,
        data_engineering_tips |->
            <<"Consider adding logging and validation steps to your pipeline.">>]

\* _fallback_analysis(error_details, kb_enrichment)
fallback_analysis(error_details, kb_enrichment_) ==
    LET kb_matched == Get(kb_enrichment_, "pattern_matched", FALSE)
        error_entry == Get(kb_enrichment_, "error_entry", <<>>)
        pipeline == Get(error_details, "pipeline_name", "Unknown")
        activity == Get(error_details, "failing_activity_name", "Unknown")
        error_msg == Get(error_details, "primary_error_message", Msg(<<"No details">>))
        runbook == Get(kb_enrichment_, "runbook", None)
        has_runbook == runbook # None /\ DOMAIN runbook # {}
        known == [i \in DOMAIN Take(Get(kb_enrichment_, "known_solutions", <<>>), 5) |->
                    [title |-> <<Get(kb_enrichment_, "known_solutions", <<>>)[i]>>,
                     steps |-> <<>>,
                     estimated_time |-> Get(kb_enrichment_, "estimated_fix_time", "15-30 minutes"),
                     likelihood |-> IF i = 1 THEN "high" ELSE "medium"]]
        runbook_steps == IF has_runbook THEN Get(runbook, "steps", <<>>) ELSE <<>>
        joined == Join(Take(Get(kb_enrichment_, "known_causes", <<>>), 3), ". ")
        prevention == IF kb_matched /\ has_runbook THEN Get(runbook, "prevention", <<>>) ELSE <<>>
    IN [plain_english_error |->
            IF kb_matched
            THEN <<"The pipeline '", pipeline, "' failed at activity '", activity, "'. ",
                   "This is a known error: ", Get(error_entry, "title", ""), ". ",
                   Get(error_entry, "description", "")>>
            ELSE <<"The pipeline '", pipeline, "' failed at activity '", activity, "'. ",
                   "Error: ">> \o truncate_string(error_msg, 300),
        root_cause |->
            IF kb_matched
            THEN (IF TextEmpty(joined) THEN <<"See known causes above">> ELSE joined)
            ELSE <<"Could not automatically determine root cause. Please review the error message.">>,
        category |-> IF kb_matched THEN Get(kb_enrichment_, "category", "unknown") ELSE "unknown",
        severity |-> IF kb_matched THEN Get(kb_enrichment_, "severity", "medium") ELSE "medium",
        solutions |->
            IF kb_matched
            THEN (IF runbook_steps # <<>>
                  THEN <<[title |-> <<"Follow Runbook: ">>
                                      \o Get(runbook, "title", <<"Troubleshooting Guide">>),
                          steps |-> Take(runbook_steps, 8),
                          estimated_time |-> Get(runbook, "estimated_time", "15-30 minutes"),
                          likelihood |-> "high"]>> \o known
                  ELSE known)
            ELSE <<[title |-> <<"Manual Investigation">>,
                    steps |-> <<"Open Azure Data Factory Monitor",
                                "Find the pipeline run with ID",
                                "Review the failing activity error details",
                                "Check the activity input/output for data issues",
                                "Review linked service connections">>,
                    estimated_time |-> "15-30 minutes",
                    likelihood |-> "medium"]>>,
        preventive_measures |->
            IF prevention # <<>> THEN prevention
            ELSE <<"Add monitoring alerts for pipeline failures",
                   "Implement retry policies on activities",
                   "Add data validation activities">>,
        related_documentation |->
            [i \in DOMAIN Get(kb_enrichment_, "documentation_links", <<>>) |->
               [title |-> Get(kb_enrichment_, "documentation_links", <<>>)[i],
                url |-> Get(kb_enrichment_, "documentation_links", <<>>)[i]]],
        additional_checks |-> <<>>,
        data_engineering_tips |->
            <<"Consider adding logging and validation steps to your pipeline.">>]

\* The cap _build_prompt passes to truncate_string.
PROMPT_MESSAGE_CAP == 2000

\* _build_prompt(error_details, kb_enrichment): the context dict that is
\* dumped into the prompt.  The fields copied unchanged from error_details
\* (parameters, invoked_by, run_start, run_end, duration_ms, activity lists)
\* are left out.
build_prompt(error_details, kb_enrichment_) ==
    LET context ==
          [pipeline_name |-> Get(error_details, "pipeline_name", "None"),
           run_id |-> Get(error_details, "run_id", "None"),
           primary_error_code |-> Get(error_details, "primary_error_code", "None"),
           primary_error_message |->
              truncate_string(Get(error_details, "primary_error_message", Msg(<<>>)),
                              PROMPT_MESSAGE_CAP),
           failing_activity_name |-> Get(error_details, "failing_activity_name", "None"),
           failing_activity_type |-> Get(error_details, "failing_activity_type", "None")]
    IN IF Get(kb_enrichment_, "pattern_matched", FALSE)
       THEN Put(context, "knowledge_base_match",
                [category |-> Get(kb_enrichment_, "category", "None"),
                 known_causes |-> Get(kb_enrichment_, "known_causes", None),
                 severity |-> Get(kb_enrichment_, "severity", "None")])
       ELSE context

\* _get_ai_analysis(error_details, kb_enrichment) for behaviour ai of the
\* generative model: it raises (ai.raises) or returns the lines ai.lines.
\* Whatever json.loads returns is returned as it is.
get_ai_analysis(error_details, kb_enrichment_, ai) ==
    IF ai.raises THEN JObj(fallback_analysis(error_details, kb_enrichment_))
    ELSE LET parsed == json_loads(strip_fences(ai.lines))
         IN IF parsed.ok THEN parsed.value
            ELSE JObj(fallback_analysis(error_details, kb_enrichment_))

\* _merge_analysis calls ai_analysis.get(...): AttributeError on anything
\* that is not a dict.
merge_analysis_raises(ai_analysis) == ai_analysis.py # "dict"

\* _merge_analysis with the priority reversed: category and severity from the
\* enrichment, the synthesis result's only when the enrichment has none.
merge_analysis_enrichment_first(error_details, kb_enrichment_, ai_dict) ==
    [pipeline_name |-> Get(error_details, "pipeline_name", "None"),
     run_id |-> Get(error_details, "run_id", "None"),
     failing_activity |-> Get(error_details, "failing_activity_name", "None"),
     failing_activity_type |-> Get(error_details, "failing_activity_type", "None"),
     plain_english_error |->
        Get(ai_dict, "plain_english_error",
            <<"Pipeline '", Get(error_details, "pipeline_name", "None"),
              "' failed at activity '", Get(error_details, "failing_activity_name", "None"),
              "'.">>),
     raw_error_message |-> Get(error_details, "primary_error_message", Msg(<<>>)),
     error_code |-> Get(error_details, "primary_error_code", ""),
     category |-> Get(kb_enrichment_, "category", Get(ai_dict, "category", "unknown")),
     severity |-> Get(kb_enrichment_, "severity", Get(ai_dict, "severity", "medium")),
     root_cause |-> Get(ai_dict, "root_cause", <<"Unable to determine root cause">>),
     solutions |-> Get(ai_dict, "solutions", <<>>),
     known_solutions |-> Get(kb_enrichment_, "known_solutions", <<>>),
     runbook |-> Get(kb_enrichment_, "runbook", None),
     preventive_measures |-> Get(ai_dict, "preventive_measures", <<>>),
     additional_checks |-> Get(ai_dict, "additional_checks", <<>>),
     data_engineering_tips |-> Get(ai_dict, "data_engineering_tips", <<"">>),
     estimated_fix_time |-> Get(kb_enrichment_, "estimated_fix_time", "unknown"),
     documentation_links |->
        Get(ai_dict, "related_documentation", <<>>)
          \o [i \in DOMAIN Get(kb_enrichment_, "documentation_links", <<>>) |->
                [title |-> "Microsoft Docs",
                 url |-> Get(kb_enrichment_, "documentation_links", <<>>)[i]]],
     kb_pattern_matched |-> Get(kb_enrichment_, "pattern_matched", FALSE),
     kb_error_id |->
        LET entry == Get(kb_enrichment_, "error_entry", <<>>)
        IN IF entry # None /\ DOMAIN entry # {} THEN Get(entry, "id", "None") ELSE "None"]

\* _merge_analysis(error_details, kb_enrichment, ai_analysis) for a dict
\* ai_analysis.  The fields copied unchanged from error_details (run_start,
\* run_end, duration_ms, parameters, invoked_by, activity lists) are left out.
merge_analysis(error_details, kb_enrichment_, ai_dict) ==
    [pipeline_name |-> Get(error_details, "pipeline_name", "None"),
     run_id |-> Get(error_details, "run_id", "None"),
     failing_activity |-> Get(error_details, "failing_activity_name", "None"),
     failing_activity_type |-> Get(error_details, "failing_activity_type", "None"),
     plain_english_error |->
        Get(ai_dict, "plain_english_error",
            <<"Pipeline '", Get(error_details, "pipeline_name", "None"),
              "' failed at activity '", Get(error_details, "failing_activity_name", "None"),
              "'.">>),
     raw_error_message |-> Get(error_details, "primary_error_message", Msg(<<>>)),
     error_code |-> Get(error_details, "primary_error_code", ""),
     category |-> Get(ai_dict, "category", Get(kb_enrichment_, "category", "unknown")),
     severity |-> Get(ai_dict, "severity", Get(kb_enrichment_, "severity", "medium")),
     root_cause |-> Get(ai_dict, "root_cause", <<"Unable to determine root cause">>),
     solutions |-> Get(ai_dict, "solutions", <<>>),
     known_solutions |-> Get(kb_enrichment_, "known_solutions", <<>>),
     runbook |-> Get(kb_enrichment_, "runbook", None),
     preventive_measures |-> Get(ai_dict, "preventive_measures", <<>>),
     additional_checks |-> Get(ai_dict, "additional_checks", <<>>),
     data_engineering_tips |-> Get(ai_dict, "data_engineering_tips", <<"">>),
     estimated_fix_time |-> Get(kb_enrichment_, "estimated_fix_time", "unknown"),
     documentation_links |->
        Get(ai_dict, "related_documentation", <<>>)
          \o [i \in DOMAIN Get(kb_enrichment_, "documentation_links", <<>>) |->
                [title |-> "Microsoft Docs",
                 url |-> Get(kb_enrichment_, "documentation_links", <<>>)[i]]],
     kb_pattern_matched |-> Get(kb_enrichment_, "pattern_matched", FALSE),
     kb_error_id |->
        LET entry == Get(kb_enrichment_, "error_entry", <<>>)
        IN IF entry # None /\ DOMAIN entry # {} THEN Get(entry, "id", "None") ELSE "None"]

\* ---------------------------------------------------- FactCheckingAgent
Min(a, b) == IF a < b THEN a ELSE b

\* confidence + 0.1 in IEEE doubles: 0.7 + 0.1 is 0.7999999999999999 and that
\* plus 0.1 is 0.8999999999999999, written 799 and 899; the other sums that
\* occur are exact to the thousandth.
add_tenth(c) == IF c = 700 THEN 799 ELSE IF c = 799 THEN 899 ELSE c + 100

\* round(confidence, 2)
round2(c) == ((c + 5) \div 10) * 10

\* _score_to_level
score_to_level(score) ==
    IF score >= 800 THEN "high" ELSE IF score >= 600 THEN "medium" ELSE "low"

\* _fallback_verification with the similarity thresholds tested by `>=`.
fallback_verification_inclusive(analysis, kb_matches) ==
    LET best_sim == IF kb_matches # <<>> THEN Get(kb_matches[1], "similarity", 0) ELSE 0
        c0 == IF kb_matches = <<>> THEN 500
              ELSE IF best_sim >= 600 THEN 850
              ELSE IF best_sim >= 400 THEN 700
              ELSE IF best_sim >= 300 THEN 600
              ELSE 500
        c1 == IF /\ ~TextEmpty(Get(analysis, "root_cause", <<>>))
                 /\ Get(analysis, "solutions", <<>>) # <<>>
              THEN Min(add_tenth(c0), 950) ELSE c0
        kb_cat == IF kb_matches # <<>>
                  THEN Get(Get(kb_matches[1], "entry", <<>>), "category", "")
                  ELSE ""
        confidence ==
              IF /\ kb_matches # <<>>
                 /\ Get(analysis, "category", "") # ""
                 /\ kb_cat = Get(analysis, "category", "")
              THEN Min(add_tenth(c1), 950) ELSE c1
    IN [confidence_score |-> round2(confidence),
        confidence_level |-> score_to_level(confidence),
        root_cause_accurate |-> confidence > 600,
        solutions_applicable |-> confidence > 500,
        severity_correct |-> TRUE,
        corrections |-> <<>>,
        flagged_issues |-> IF confidence > 500 THEN <<>>
                           ELSE <<"Low confidence - manual review recommended">>,
        verification_method |-> "knowledge_base_fallback"]

\* _fallback_verification without the cap min(..., 0.95) on the two bonuses.
fallback_verification_uncapped(analysis, kb_matches) ==
    LET best_sim == IF kb_matches # <<>> THEN Get(kb_matches[1], "similarity", 0) ELSE 0
        c0 == IF kb_matches = <<>> THEN 500
              ELSE IF best_sim > 600 THEN 850
              ELSE IF best_sim > 400 THEN 700
              ELSE IF best_sim > 300 THEN 600
              ELSE 500
        c1 == IF /\ ~TextEmpty(Get(analysis, "root_cause", <<>>))
                 /\ Get(analysis, "solutions", <<>>) # <<>>
              THEN add_tenth(c0) ELSE c0
        kb_cat == IF kb_matches # <<>>
                  THEN Get(Get(kb_matches[1], "entry", <<>>), "category", "")
                  ELSE ""
        confidence ==
              IF /\ kb_matches # <<>>
                 /\ Get(analysis, "category", "") # ""
                 /\ kb_cat = Get(analysis, "category", "")
              THEN add_tenth(c1) ELSE c1
    IN [confidence_score |-> round2(confidence),
        confidence_level |-> score_to_level(confidence),
        root_cause_accurate |-> confidence > 600,
        solutions_applicable |-> confidence > 500,
        severity_correct |-> TRUE,
        corrections |-> <<>>,
        flagged_issues |-> IF confidence > 500 THEN <<>>
                           ELSE <<"Low confidence - manual review recommended">>,
        verification_method |-> "knowledge_base_fallback"]

\* _fallback_verification(analysis, kb_matches)
fallback_verification(analysis, kb_matches) ==
    LET best_sim == IF kb_matches # <<>> THEN Get(kb_matches[1], "similarity", 0) ELSE 0
        c0 == IF kb_matches = <<>> THEN 500
              ELSE IF best_sim > 600 THEN 850
              ELSE IF best_sim > 400 THEN 700
              ELSE IF best_sim > 300 THEN 600
              ELSE 500
        c1 == IF /\ ~TextEmpty(Get(analysis, "root_cause", <<>>))
                 /\ Get(analysis, "solutions", <<>>) # <<>>
              THEN Min(add_tenth(c0), 950) ELSE c0
        kb_cat == IF kb_matches # <<>>
                  THEN Get(Get(kb_matches[1], "entry", <<>>), "category", "")
                  ELSE ""
        confidence ==
              IF /\ kb_matches # <<>>
                 /\ Get(analysis, "category", "") # ""
                 /\ kb_cat = Get(analysis, "category", "")
              THEN Min(add_tenth(c1), 950) ELSE c1
    IN [confidence_score |-> round2(confidence),
        confidence_level |-> score_to_level(confidence),
        root_cause_accurate |-> confidence > 600,
        solutions_applicable |-> confidence > 500,
        severity_correct |-> TRUE,
        corrections |-> <<>>,
        flagged_issues |-> IF confidence > 500 THEN <<>>
                           ELSE <<"Low confidence - manual review recommended">>,
        verification_method |-> "knowledge_base_fallback"]

\* dict.setdefault(k, v)
SetDefault(d, k, v) == IF k \in DOMAIN d THEN d ELSE Put(d, k, v)

\* The `Ensure required fields` block of verify.
ensure_required_fields(result) ==
    LET r1 == SetDefault(result, "confidence_score", 500)
        r2 == SetDefault(r1, "confidence_level", score_to_level(r1.confidence_score))
        r3 == SetDefault(r2, "root_cause_accurate", TRUE)
        r4 == SetDefault(r3, "solutions_applicable", TRUE)
        r5 == SetDefault(r4, "severity_correct", TRUE)
        r6 == SetDefault(r5, "corrections", <<>>)
    IN SetDefault(r6, "flagged_issues", <<>>)

\* A JSON object whose "confidence_score" is not a number (a string, null)
\* carries the mark nonnumeric; the value kept under the key stands for it.
JObjNonNumericScore(d) == [py |-> "dict", v |-> d, nonnumeric |-> TRUE]

\* f"{result['confidence_score']:.2f}" (and _score_to_level before it, when
\* the level is missing) raises on a score that is not a number.
score_unformattable(value) ==
    "confidence_score" \in DOMAIN value.v /\ Get(value, "nonnumeric", FALSE)

\* verify(error_details, analysis, kb_matches) for behaviour fc of the
\* generative model.  Everything in its try block that raises leads to the
\* fallback: the model call, json.loads, result.setdefault on a value that is
\* not a dict, the formatting of a score that is not a number, and the slice
\* [:1000] of an absent (None) error message in _build_verification_prompt.
verify(error_details, analysis, kb_matches, fc) ==
    LET parsed == json_loads(strip_fences(fc.lines))
    IN IF \/ Get(error_details, "primary_error_message", Msg(<<>>)).is_none
          \/ fc.raises
          \/ ~parsed.ok
          \/ parsed.value.py # "dict"
          \/ score_unformattable(parsed.value)
       THEN fallback_verification(analysis, kb_matches)
       ELSE ensure_required_fields(parsed.value.v)

\* should_send_email(verification), min_confidence = 0.5
MIN_CONFIDENCE == 500

\* should_send_email with the threshold excluded, `> self.min_confidence`.
should_send_email_strict(verification_) ==
    Get(verification_, "confidence_score", 0) > MIN_CONFIDENCE

should_send_email(verification_) ==
    Get(verification_, "confidence_score", 0) >= MIN_CONFIDENCE

\* ------------------------------------------------ ErrorAnalyzer.analyze
\* Steps 1 to 3 of analyze.  q_enrich is the vector store's answer to the
\* query made inside vector_kb.get_enrichment (made only for a non-empty
\* message), q_search its answer to the query of vector_kb.search; either may
\* raise, which leaves what was not yet assigned at {} and [].
analyze_enrich(errs, vector_up_, error_details, q_enrich, q_search) ==
    LET primary_error == Get(error_details, "primary_error_message", Msg(<<>>))
        kb_enrichment == kb_get_enrichment(errs, primary_error)
        enrich_raises == ~Falsy(primary_error) /\ q_enrich.raises
        vector_enrichment ==
            IF vector_up_ /\ ~enrich_raises
            THEN vector_get_enrichment(primary_error, q_enrich.response)
            ELSE <<>>
        vector_matches ==
            IF vector_up_ /\ ~enrich_raises /\ ~q_search.raises
            THEN search(q_search.response)
            ELSE <<>>
    IN [kb_enrichment |-> kb_enrichment,
        vector_enrichment |-> vector_enrichment,
        vector_matches |-> vector_matches,
        merged_kb |-> merge_kb_enrichments(kb_enrichment, vector_enrichment)]

\* KnowledgeBase.errors after step 3: kb_enrichment["error_entry"] is the
\* matched catalog entry itself and kb_enrichment["known_solutions"] its
\* "solutions" list, so what the merge appends is appended in the catalog.
errors_after_merge(errs, primary_error, kb_enrichment, vector_enrichment) ==
    LET idx == match_error(errs, primary_error)
    IN IF idx = 0 THEN errs
       ELSE [errs EXCEPT ![idx] =
               regex_kb_after_merge(kb_enrichment, vector_enrichment).error_entry]

\* Steps 6 and 7 of analyze on the merged report.
analyze_verify(fact_checker_up_, error_details, result, vector_matches, fc) ==
    LET verification == verify(error_details, result, vector_matches, fc)
        r1 == IF fact_checker_up_
              THEN Put(Put(Put(result, "fact_check", verification),
                           "confidence_score", Get(verification, "confidence_score", 500)),
                       "confidence_level", Get(verification, "confidence_level", "medium"))
              ELSE Put(Put(result, "confidence_score", 500), "confidence_level", "medium")
    IN IF vector_matches # <<>>
       THEN Put(r1, "similar_errors",
                [i \in DOMAIN Take(vector_matches, 3) |->
                   [title |-> vector_matches[i].entry.title,
                    similarity |-> vector_matches[i].similarity,
                    category |-> vector_matches[i].entry.category]])
       ELSE r1

\* Step 6 of analyze on its own: the report with the verification's score
\* and level, or with 0.5 / medium when there is no fact checker.
fact_check_step(fact_checker_up_, error_details, result, vector_matches, fc) ==
    LET verification_ == verify(error_details, result, vector_matches, fc)
    IN IF fact_checker_up_
       THEN Put(Put(Put(result, "fact_check", verification_),
                    "confidence_score", Get(verification_, "confidence_score", 500)),
                "confidence_level", Get(verification_, "confidence_level", "medium"))
       ELSE Put(Put(result, "confidence_score", 500), "confidence_level", "medium")

\* Step 7 of analyze on its own.
attach_similar(result, vector_matches) ==
    IF vector_matches # <<>>
    THEN Put(result, "similar_errors",
             [i \in DOMAIN Take(vector_matches, 3) |->
                [title |-> vector_matches[i].entry.title,
                 similarity |-> vector_matches[i].similarity,
                 category |-> vector_matches[i].entry.category]])
    ELSE result

\* _get_ai_analysis that tries the model a second time after an exception.
synthesis_invocations_retry(ai) == IF ai.raises THEN 2 ELSE 1

\* How often _get_ai_analysis calls self.model.generate_content: once, then
\* it parses the answer or falls back.
synthesis_invocations(ai) == 1

\* How often verify calls self.model.generate_content: once, unless building
\* the prompt raised before the call (the slice of a None message).
verify_invocations(error_details, fc) ==
    IF Get(error_details, "primary_error_message", Msg(<<>>)).is_none THEN 0 ELSE 1

\* ------------------------------------------------------------- variables
VARIABLES
    errors,        \* KnowledgeBase.errors, the regex catalog
    message,       \* the error message handed to the matcher
    best_match,    \* what match_error returned (index into errors, 0 = None)
    enrichment,    \* what KnowledgeBase.get_enrichment returned
    kpc,           \* "ready" before the lookup, "done" after it returned,
                   \* "raised" after an exception left it
    regex_kb,      \* the regex enrichment object handed to the merge
    regex_kb0,     \* its value when it was built
    vector_kb,     \* the semantic enrichment object handed to the merge
    merged,        \* what the first call of _merge_kb_enrichments returned
    merged_again,  \* what the second call returned
    mpc,           \* "ready", "once" or "twice": calls of the merge so far
    errors_loaded, \* the regex catalog as _load_data read it
    vector_up,     \* ErrorAnalyzer.vector_kb is not None
    fact_checker_up, \* ErrorAnalyzer.fact_checker is not None
    call,          \* the failure record and the collaborators' behaviour in
                   \* the current call of analyze
    locals,        \* analyze's kb_enrichment, vector_enrichment,
                   \* vector_matches, merged_kb and ai_analysis
    report,        \* the report analyze returned
    apc,           \* "idle", "returned" (analyze returned a report) or
                   \* "raised" (an exception left analyze)
    store,         \* the persistent ChromaDB collection
    constructions, \* VectorKnowledgeBase objects constructed so far
    populations,   \* calls of _populate_knowledge_base so far
    last_init,     \* the latest construction: the collection it found and
                   \* whether it populated
    query,         \* the latest search / get_enrichment call and its result
    rpc,           \* per constructing process: its position in __init__
    saw_empty,     \* per process: count() == 0 was true when it looked
    inserted,      \* per process: its collection.add returned
    fv_call,       \* the arguments and model behaviour of the verify call
    verification,  \* what verify returned
    fpc,           \* "ready" before verify, "done" after it, "gated" after
                   \* should_send_email
    gate,          \* the dict should_send_email was called on and what it
                   \* returned
    syn_call,      \* the arguments of a call of _build_prompt or
                   \* _fallback_analysis: error_details and kb_enrichment
    syn_out,       \* what that call returned
    syn_pc,        \* "ready" before the call, "done" after it
    stage,         \* the step of analyze that runs next: "regex", "semantic",
                   \* "merge", "synthesis", "report_merge", "fact_check",
                   \* "similar"; "returned" or "raised" once analyze is left
    trace,         \* the steps of this call that have run, in order
    ai_calls,      \* calls of the synthesis model's generate_content so far
    fc_calls,      \* calls of the fact-check model's generate_content so far
    fc_given,      \* the analysis verify was called with
    run_state,     \* per pipeline run: "ok", "failed" (failed and inside the
                   \* lookback window) or "aged" (failed, outside the window)
    run_outcome,   \* per pipeline run: what processing it gives, an exception
                   \* or an analysis with a confidence_score
    sent,          \* the calls of send_diagnostic_report so far, in order
    triggers,      \* handler invocations so far
    last_scan      \* the latest scan: the failures it found and the runs it
                   \* sent a report for

matchVars == <<message, best_match, enrichment, kpc>>
mergeVars == <<regex_kb, regex_kb0, vector_kb, merged, merged_again, mpc>>
analyzeVars == <<errors_loaded, vector_up, fact_checker_up, call, locals, report, apc>>
storeVars == <<store, constructions, populations, last_init, query>>
raceVars == <<rpc, saw_empty, inserted>>
verifyVars == <<fv_call, verification, fpc, gate>>
synthVars == <<syn_call, syn_out, syn_pc>>
stageVars == <<stage, trace, ai_calls, fc_calls, fc_given>>
notifyVars == <<run_state, run_outcome, sent, triggers, last_scan>>
vars == <<errors, matchVars, mergeVars, analyzeVars, storeVars, raceVars, verifyVars, synthVars, stageVars, notifyVars>>

MatchIdle ==
    /\ message = NoneMsg /\ best_match = 0
    /\ enrichment = None /\ kpc = "off"

AnalyzeIdle ==
    /\ errors_loaded = <<>> /\ vector_up = FALSE /\ fact_checker_up = FALSE
    /\ call = None /\ locals = None /\ report = None /\ apc = "off"

MergeIdle ==
    /\ regex_kb = None /\ regex_kb0 = None /\ vector_kb = None
    /\ merged = None /\ merged_again = None /\ mpc = "off"

StoreIdle ==
    /\ store = EmptyStore /\ constructions = 0 /\ populations = 0
    /\ last_init = None /\ query = None

RaceIdle == rpc = <<>> /\ saw_empty = <<>> /\ inserted = <<>>

VerifyIdle == fv_call = None /\ verification = None /\ fpc = "off" /\ gate = None

SynthIdle == syn_call = None /\ syn_out = None /\ syn_pc = "off"

StageIdle ==
    /\ stage = "off" /\ trace = <<>> /\ ai_calls = 0 /\ fc_calls = 0
    /\ fc_given = None

NotifyIdle ==
    /\ run_state = <<>> /\ run_outcome = <<>> /\ sent = <<>> /\ triggers = 0
    /\ last_scan = None

\* ------------------------------------------- the regex matcher on its own
PatternPool == {Lit(<<"a">>), Lit(<<"b">>), Lit(<<"a", "b">>),
                Alt(<<"a">>, <<"b">>), InvalidPattern, OverflowPattern}

EntryId(i) == "e" \o ToString(i)

\* An entry of common_errors.json; usePattern = FALSE leaves the key out.
MatchEntry(i, usePattern, pattern) ==
    LET e == [id |-> EntryId(i), title |-> "t", category |-> "connectivity",
              severity |-> "high", solutions |-> <<"s1">>]
    IN IF usePattern THEN Put(e, "pattern", pattern) ELSE e

MatchEntryPool(i) ==
    {MatchEntry(i, TRUE, p) : p \in PatternPool} \cup {MatchEntry(i, FALSE, EmptyPattern)}

MatchCatalogs ==
    UNION {{c \in [1..n -> UNION {MatchEntryPool(i) : i \in 1..n}] :
              \A i \in 1..n : c[i].id = EntryId(i)} : n \in 0..MaxCatalog}

MatchInit ==
    /\ errors \in MatchCatalogs
    /\ message \in Messages
    /\ best_match = 0
    /\ enrichment = None
    /\ kpc = "ready"
    /\ MergeIdle
    /\ AnalyzeIdle
    /\ StoreIdle
    /\ RaceIdle
    /\ VerifyIdle
    /\ SynthIdle
    /\ StageIdle
    /\ NotifyIdle

\* KnowledgeBase.get_enrichment(message), which calls match_error.
Lookup ==
    /\ kpc = "ready"
    /\ IF match_error(errors, message) = Raised
       THEN /\ best_match' = 0
            /\ enrichment' = None
            /\ kpc' = "raised"
       ELSE /\ best_match' = match_error(errors, message)
            /\ enrichment' = kb_get_enrichment(errors, message)
            /\ kpc' = "done"
    /\ UNCHANGED <<notifyVars, stageVars, synthVars, errors, message, mergeVars, analyzeVars, storeVars, raceVars, verifyVars>>

MatchNext == Lookup

SpecMatch == MatchInit /\ [][MatchNext]_vars

\* ------------------------------------------------ the merge on its own
Sol == {"s1", "s2", "s3"}

RECURSIVE SeqsUpTo(_, _)
SeqsUpTo(S, n) ==
    IF n = 0 THEN {<<>>}
    ELSE LET shorter == SeqsUpTo(S, n - 1)
         IN shorter \cup {Append(q, x) : q \in {t \in shorter : Len(t) = n - 1}, x \in S}

SolSeqs == SeqsUpTo(Sol, MaxSols)

\* Regex enrichments as KnowledgeBase.get_enrichment builds them: the one of
\* no match, and the one of a matched entry with the given solutions (no
\* "solutions" key when hasKey is FALSE) in a category with or without runbook.
RegexEntry(sols, hasKey, category) ==
    LET e == [id |-> "e1", title |-> "t1", description |-> "d1", pattern |-> Lit(<<"a">>),
              category |-> category, severity |-> "high",
              common_causes |-> <<"c1">>, docs |-> <<"u1">>]
    IN IF hasKey THEN Put(e, "solutions", sols) ELSE e

RegexInputs ==
    {kb_get_enrichment(<<>>, Msg(<<"a">>))}
    \cup {kb_get_enrichment(<<RegexEntry(sols, TRUE, c)>>, Msg(<<"a">>)) :
            sols \in SolSeqs, c \in {"connectivity", "quota"}}
    \cup {kb_get_enrichment(<<RegexEntry(<<>>, FALSE, "quota")>>, Msg(<<"a">>))}

\* Semantic enrichments as VectorKnowledgeBase.get_enrichment builds them, and
\* the {} analyze uses when the vector store is absent or its query raised.
VectorEntry(sols) ==
    [id |-> "v9", category |-> "timeout", severity |-> "critical",
     title |-> "vt9", error_pattern |-> "vp9", description |-> "vd9",
     causes |-> <<"c7">>, solutions |-> sols, prevention |-> <<"pv9">>,
     estimated_fix_time |-> "1 hour", documentation |-> <<"u9">>]

VectorInputs ==
    {<<>>, [pattern_matched |-> FALSE],
     [pattern_matched |-> FALSE, closest_match |-> "vt9"]}
    \cup {enrichment_of([entry |-> VectorEntry(sols), similarity |-> 650, distance |-> 350],
                        <<[entry |-> VectorEntry(sols), similarity |-> 650, distance |-> 350],
                          [entry |-> ADF_ERROR_KNOWLEDGE[1], similarity |-> 200, distance |-> 800]>>) :
            sols \in SolSeqs}

MergeInit ==
    /\ regex_kb \in RegexInputs
    /\ regex_kb0 = regex_kb
    /\ vector_kb \in VectorInputs
    /\ merged = None
    /\ merged_again = None
    /\ mpc = "ready"
    /\ errors = <<>>
    /\ MatchIdle
    /\ AnalyzeIdle
    /\ StoreIdle
    /\ RaceIdle
    /\ VerifyIdle
    /\ SynthIdle
    /\ StageIdle
    /\ NotifyIdle

\* merged = self._merge_kb_enrichments(regex_kb, vector_kb)
MergeOnce ==
    /\ mpc = "ready"
    /\ merged' = merge_kb_enrichments(regex_kb, vector_kb)
    /\ regex_kb' = regex_kb_after_merge(regex_kb, vector_kb)
    /\ mpc' = "once"
    /\ UNCHANGED <<notifyVars, stageVars, synthVars, regex_kb0, vector_kb, merged_again, errors, matchVars, analyzeVars,
                   storeVars, raceVars, verifyVars>>

\* The same call again, on the same two objects.
MergeAgain ==
    /\ mpc = "once"
    /\ merged_again' = merge_kb_enrichments(regex_kb, vector_kb)
    /\ regex_kb' = regex_kb_after_merge(regex_kb, vector_kb)
    /\ mpc' = "twice"
    /\ UNCHANGED <<notifyVars, stageVars, synthVars, regex_kb0, vector_kb, merged, errors, matchVars, analyzeVars,
                   storeVars, raceVars, verifyVars>>

\* The same call again, on enrichments built afresh from the same data.
MergeAgainFresh ==
    /\ mpc = "once"
    /\ merged_again' = merge_kb_enrichments(regex_kb0, vector_kb)
    /\ mpc' = "twice"
    /\ UNCHANGED <<notifyVars, stageVars, synthVars, regex_kb, regex_kb0, vector_kb, merged, errors, matchVars, analyzeVars,
                   storeVars, raceVars, verifyVars>>

MergeNext == MergeOnce \/ MergeAgain \/ MergeAgainFresh

SpecMerge == MergeInit /\ [][MergeNext]_vars

\* ------------------------------------------------- the analyzer at work
\* Regex catalogs: an entry with solutions in a category that has a runbook,
\* and an entry without the optional keys in a category that has none.
EntryConn ==
    [id |-> "e1", title |-> "t1", description |-> "d1", pattern |-> Lit(<<"a">>),
     category |-> "connectivity", severity |-> "high",
     common_causes |-> <<"c1", "c2", "c3", "c4">>,
     solutions |-> <<"s1", "s9">>,
     estimated_fix_time |-> "30 min", docs |-> <<"u1">>]

EntryBare ==
    [id |-> "e2", title |-> "t2", pattern |-> Lit(<<"b">>), category |-> "quota"]

\* An entry whose pattern does not compile and is not caught by the scan.
EntryOverflow ==
    [id |-> "e3", title |-> "t3", pattern |-> OverflowPattern, category |-> "timeout"]

AnalyzeCatalogs == {<<>>, <<EntryConn>>, <<EntryBare>>, <<EntryConn, EntryBare>>,
                    <<EntryConn, EntryOverflow>>}

AnalyzeMessages == {NoneMsg} \cup {Msg(t) : t \in StringsUpTo(MaxAnalyzeMsgLen)}

ErrorDetails(msg) ==
    [pipeline_name |-> "p1", run_id |-> "r1", failing_activity_name |-> "act1",
     failing_activity_type |-> "Copy", primary_error_code |-> "2108",
     primary_error_message |-> msg]

\* What collection.query does: it raises, or returns up to three ranked
\* [id, distance] pairs.
Raises == [raises |-> TRUE, response |-> <<>>]
Ranking(first, second, similarity) ==
    [raises |-> FALSE,
     response |-> <<[id |-> first, distance |-> 1000 - similarity],
                    [id |-> second, distance |-> 800]>>]

TopSimilarities == {290, 300, 650}

QueryOutcomes ==
    {Raises, [raises |-> FALSE, response |-> <<>>]}
    \cup {Ranking("v1", "v2", sim) : sim \in TopSimilarities}
    \cup {Ranking("v2", "v1", sim) : sim \in TopSimilarities}

\* The second query: the same answer as the first, an exception, or another
\* ranking.
SecondQueryOutcomes(q) == {q, Raises, Ranking("v2", "v1", 650)}

\* JSON objects the synthesis model may return.
AiFull ==
    [plain_english_error |-> <<"ai_plain">>, root_cause |-> <<"ai_root">>,
     category |-> "authentication", severity |-> "critical",
     solutions |-> <<[title |-> <<"ai_sol">>, steps |-> <<"ai_step">>,
                      estimated_time |-> "5 minutes", likelihood |-> "high"]>>,
     preventive_measures |-> <<"ai_pm">>,
     related_documentation |-> <<[title |-> "ai_doc", url |-> "u_ai"]>>,
     additional_checks |-> <<"ai_check">>,
     data_engineering_tips |-> <<"ai_tip">>]

AiPartial == [root_cause |-> <<"ai_root">>, solutions |-> AiFull.solutions]

SchemaFields == DOMAIN AiFull

AiBehaviours ==
    {[raises |-> TRUE, lines |-> <<>>],
     [raises |-> FALSE, lines |-> <<TextLine>>],
     [raises |-> FALSE, lines |-> <<JsonLine(JList)>>],
     [raises |-> FALSE, lines |-> <<JsonLine(JObj(AiFull))>>],
     [raises |-> FALSE, lines |-> <<JsonLine(JObj(<<>>))>>],
     [raises |-> FALSE, lines |-> <<JsonLine(JObj(AiPartial))>>],
     [raises |-> FALSE, lines |-> <<Fence, JsonLine(JObj(AiFull)), Fence>>],
     [raises |-> FALSE, lines |-> <<JsonLine(JObj(AiFull)), Fence>>]}

\* JSON objects the fact-check model may return.
FcFull ==
    [confidence_score |-> 900, confidence_level |-> "high",
     root_cause_accurate |-> TRUE, solutions_applicable |-> FALSE,
     severity_correct |-> TRUE, corrections |-> <<"fix">>,
     flagged_issues |-> <<>>]

FcBehaviours ==
    {[raises |-> TRUE, lines |-> <<>>],
     [raises |-> FALSE, lines |-> <<TextLine>>],
     [raises |-> FALSE, lines |-> <<JsonLine(JList)>>],
     [raises |-> FALSE, lines |-> <<JsonLine(JObj(FcFull))>>],
     [raises |-> FALSE, lines |-> <<JsonLine(JObj(<<>>))>>],
     [raises |-> FALSE, lines |-> <<JsonLine(JObj([confidence_score |-> 400]))>>],
     [raises |-> FALSE, lines |-> <<JsonLine(JObj([confidence_score |-> 900,
                                                   confidence_level |-> "low"]))>>],
     [raises |-> FALSE, lines |-> <<Fence, JsonLine(JObj(FcFull)), Fence>>]}

\* ErrorAnalyzer.__init__: the catalog is loaded; the vector knowledge base
\* and the fact checker are there unless their construction raised.
Init ==
    /\ errors \in AnalyzeCatalogs
    /\ errors_loaded = errors
    /\ vector_up \in BOOLEAN
    /\ fact_checker_up \in BOOLEAN
    /\ call = None
    /\ locals = None
    /\ report = None
    /\ apc = "idle"
    /\ MatchIdle
    /\ MergeIdle
    /\ StoreIdle
    /\ RaceIdle
    /\ VerifyIdle
    /\ SynthIdle
    /\ StageIdle
    /\ NotifyIdle

\* ErrorAnalyzer.analyze(error_details), from call to return or exception.
\* The except branch around verify (score 0.6) is not reachable: verify
\* catches everything it raises.
Analyze ==
    /\ apc = "idle"
    /\ \E msg \in AnalyzeMessages, q_enrich \in QueryOutcomes,
          ai \in AiBehaviours, fc \in FcBehaviours :
         \E q_search \in SecondQueryOutcomes(q_enrich) :
            LET error_details == ErrorDetails(msg)
                enriched == analyze_enrich(errors, vector_up, error_details,
                                           q_enrich, q_search)
                ai_analysis == get_ai_analysis(error_details, enriched.merged_kb, ai)
            IN /\ call' = [error_details |-> error_details, q_enrich |-> q_enrich,
                           q_search |-> q_search, ai |-> ai, fc |-> fc]
               /\ IF match_error(errors, msg) = Raised
                  THEN \* step 1 raised: nothing else ran
                       /\ locals' = None
                       /\ errors' = errors
                       /\ report' = None
                       /\ apc' = "raised"
                  ELSE /\ locals' = Put(enriched, "ai_analysis", ai_analysis)
                       /\ errors' = errors_after_merge(errors, msg, enriched.kb_enrichment,
                                                       enriched.vector_enrichment)
                       /\ IF merge_analysis_raises(ai_analysis)
                          THEN report' = None /\ apc' = "raised"
                          ELSE /\ report' = analyze_verify(
                                              fact_checker_up, error_details,
                                              merge_analysis(error_details, enriched.merged_kb,
                                                             ai_analysis.v),
                                              enriched.vector_matches, fc)
                               /\ apc' = "returned"
    /\ UNCHANGED <<notifyVars, stageVars, synthVars, errors_loaded, vector_up, fact_checker_up, matchVars, mergeVars,
                   storeVars, raceVars, verifyVars>>

\* The caller takes the report (or handles the exception); the analyzer is
\* ready for the next failure record.
Consume ==
    /\ apc \in {"returned", "raised"}
    /\ call' = None
    /\ locals' = None
    /\ report' = None
    /\ apc' = "idle"
    /\ UNCHANGED <<notifyVars, stageVars, synthVars, errors, errors_loaded, vector_up, fact_checker_up, matchVars, mergeVars,
                   storeVars, raceVars, verifyVars>>

Next == Analyze \/ Consume

Spec == Init /\ [][Next]_vars

\* ------------------------------------------ the fact checker on its own
\* Reports handed to verify: with and without a root cause, solutions and a
\* category.
VerifyAnalyses ==
    {[root_cause |-> rc, solutions |-> sols, category |-> cat, severity |-> "high",
      preventive_measures |-> <<>>] :
       rc \in {<<>>, <<"ai_root">>}, sols \in {<<>>, AiFull.solutions},
       cat \in {"", "connectivity", "quota"}}

VerifySimilarities == {0, 290, 300, 301, 400, 401, 600, 601, 1000}

\* kb_matches as search returns them: none, or a catalog entry at a given
\* similarity.
MatchAt(id, similarity) == search(<<[id |-> id, distance |-> 1000 - similarity]>>)

VerifyMatches ==
    {<<>>} \cup {MatchAt(id, sim) : id \in CatalogIds, sim \in VerifySimilarities}

\* What the fact-check model may do: as in analyze, and JSON objects whose
\* score is a number outside [0, 1] or not a number.
VerifyFcBehaviours ==
    FcBehaviours \cup
    {[raises |-> FALSE, lines |-> <<JsonLine(JObj([confidence_score |-> 1500]))>>],
     [raises |-> FALSE, lines |-> <<JsonLine(JObj([confidence_score |-> 0 - 200,
                                                   corrections |-> <<"fix">>]))>>],
     [raises |-> FALSE,
      lines |-> <<JsonLine(JObjNonNumericScore([confidence_score |-> 0]))>>]}

VerifyInit ==
    /\ fv_call \in [error_details : {ErrorDetails(NoneMsg), ErrorDetails(Msg(<<"a">>))},
                     analysis : VerifyAnalyses,
                     kb_matches : VerifyMatches,
                     fc : VerifyFcBehaviours]
    /\ verification = None
    /\ fpc = "ready"
    /\ gate = None
    /\ errors = <<>>
    /\ MatchIdle
    /\ MergeIdle
    /\ AnalyzeIdle
    /\ StoreIdle
    /\ RaceIdle
    /\ SynthIdle
    /\ StageIdle
    /\ NotifyIdle

\* FactCheckingAgent.verify(error_details, analysis, kb_matches)
Verify ==
    /\ fpc = "ready"
    /\ verification' = verify(fv_call.error_details, fv_call.analysis,
                              fv_call.kb_matches, fv_call.fc)
    /\ fpc' = "done"
    /\ UNCHANGED <<notifyVars, stageVars, synthVars, fv_call, gate, errors, matchVars, mergeVars, analyzeVars, storeVars, raceVars>>

\* Dicts a caller may hand to should_send_email besides what verify returned:
\* without a score, and with a score just below, at and just above the
\* minimum.
GateInputs ==
    {<<>>, [confidence_level |-> "high"], [confidence_score |-> MIN_CONFIDENCE - 1],
     [confidence_score |-> MIN_CONFIDENCE], [confidence_score |-> MIN_CONFIDENCE + 1]}

\* FactCheckingAgent.should_send_email(v)
ShouldSendEmail ==
    /\ fpc = "done"
    /\ \E v \in {verification} \cup GateInputs :
          gate' = [verification |-> v, send |-> should_send_email(v)]
    /\ fpc' = "gated"
    /\ UNCHANGED <<notifyVars, stageVars, synthVars, fv_call, verification, errors, matchVars, mergeVars,
                   analyzeVars, storeVars, raceVars>>

VerifyNext == Verify \/ ShouldSendEmail

SpecVerify == VerifyInit /\ [][VerifyNext]_vars

\* --------------------------------------- the semantic matcher on its own
MaxConstructions == 2

\* A document stored from an older catalog.
StaleDoc(id) ==
    [id |-> id, category |-> "old", severity |-> "low", title |-> "old",
     estimated_fix_time |-> "unknown"]

\* Collections a starting process may find on disk: none yet, the one an
\* earlier run populated from this catalog, one populated from an older
\* catalog.
Stores ==
    {EmptyStore,
     collection_add(EmptyStore, population),
     collection_add(EmptyStore, <<StaleDoc("v0"), StaleDoc("v1")>>)}

\* Cosine distances of the nearest document: similarities 0.65, 0.301, 0.30,
\* 0.299 and 0.29; the next one is as near or at 0.8.
Distances == {350, 699, 700, 701, 710}

\* collection.query(query_texts, n_results = min(n, count())) when it returns:
\* that many stored ids, nearest first.
Responses(st, n) ==
    LET k == Min(n, count(st))
    IN {r \in [1..k -> [id : DOMAIN st, distance : Distances \cup {800}]] :
          /\ \A i, j \in 1..k : i < j =>
                r[i].id # r[j].id /\ r[i].distance <= r[j].distance
          /\ \A i \in 2..k : r[i].distance \in {r[1].distance, 800}}

VectorMessages == {NoneMsg, Msg(<<>>), Msg(<<"a">>)}

VectorInit ==
    /\ store \in Stores
    /\ constructions = 0
    /\ populations = 0
    /\ last_init = None
    /\ query = None
    /\ errors = <<>>
    /\ MatchIdle
    /\ MergeIdle
    /\ AnalyzeIdle
    /\ RaceIdle
    /\ VerifyIdle
    /\ SynthIdle
    /\ StageIdle
    /\ NotifyIdle

\* VectorKnowledgeBase(), from call to return or exception, with no other
\* construction under way.  Opening the store (PersistentClient,
\* get_or_create_collection) may fail; then nothing else runs.
Construct ==
    /\ constructions < MaxConstructions
    /\ \/ /\ store' = store
          /\ populations' = populations
          /\ last_init' = [found |-> store, opened |-> FALSE, populated |-> FALSE,
                           raised |-> TRUE]
       \/ IF needs_population(store)
          THEN \E outcome \in AddOutcomes(store, population) :
                 /\ store' = IF outcome = "returns"
                             THEN collection_add(store, population) ELSE store
                 /\ populations' = populations + 1
                 /\ last_init' = [found |-> store, opened |-> TRUE, populated |-> TRUE,
                                  raised |-> outcome = "raises"]
          ELSE /\ store' = store
               /\ populations' = populations
               /\ last_init' = [found |-> store, opened |-> TRUE, populated |-> FALSE,
                                raised |-> FALSE]
    /\ constructions' = constructions + 1
    /\ query' = None
    /\ UNCHANGED <<notifyVars, stageVars, synthVars, errors, matchVars, mergeVars, analyzeVars, raceVars, verifyVars>>

Constructed == constructions >= 1 /\ ~last_init.raised

\* get_enrichment(msg) on a constructed object: the store answers its query
\* or raises; no query is made for an empty or absent message.
GetEnrichment ==
    /\ Constructed
    /\ \E msg \in VectorMessages :
         \/ /\ Falsy(msg)
            /\ query' = [op |-> "get_enrichment", msg |-> msg, raised |-> FALSE,
                         response |-> <<>>,
                         result |-> vector_get_enrichment(msg, <<>>)]
         \/ /\ ~Falsy(msg)
            /\ query' = [op |-> "get_enrichment", msg |-> msg, raised |-> TRUE,
                         response |-> <<>>, result |-> None]
         \/ /\ ~Falsy(msg)
            /\ \E r \in Responses(store, 3) :
                  query' = [op |-> "get_enrichment", msg |-> msg, raised |-> FALSE,
                            response |-> r,
                            result |-> vector_get_enrichment(msg, r)]
    /\ UNCHANGED <<notifyVars, stageVars, synthVars, store, constructions, populations, last_init,
                   errors, matchVars, mergeVars, analyzeVars, raceVars, verifyVars>>

\* search(msg, n_results = 3) on a constructed object.
Search ==
    /\ Constructed
    /\ \E msg \in VectorMessages :
         \/ query' = [op |-> "search", msg |-> msg, raised |-> TRUE,
                      response |-> <<>>, result |-> None]
         \/ \E r \in Responses(store, 3) :
               query' = [op |-> "search", msg |-> msg, raised |-> FALSE,
                         response |-> r, result |-> [matches |-> search(r)]]
    /\ UNCHANGED <<notifyVars, stageVars, synthVars, store, constructions, populations, last_init,
                   errors, matchVars, mergeVars, analyzeVars, raceVars, verifyVars>>

\* Request bodies: none, {}, one without "query", one with it.
AgentBodies == {None, <<>>, [limit |-> 3], [query |-> Msg(<<"a">>)]}

\* POST /api/agent_search in a dashboard process whose module-level
\* VectorKnowledgeBase() returned (vector_kb_available) or raised.
ApiAgentSearch ==
    /\ constructions >= 1
    /\ \E data \in AgentBodies :
         \/ /\ ~Constructed \/ data = None \/ "query" \notin DOMAIN data
            /\ query' = [op |-> "api_agent_search", msg |-> data, raised |-> FALSE,
                         response |-> <<>>,
                         result |-> api_agent_search(Constructed, data, FALSE, <<>>)]
         \/ /\ Constructed /\ data # None /\ "query" \in DOMAIN data
            /\ query' = [op |-> "api_agent_search", msg |-> data, raised |-> TRUE,
                         response |-> <<>>,
                         result |-> api_agent_search(TRUE, data, TRUE, <<>>)]
         \/ /\ Constructed /\ data # None /\ "query" \in DOMAIN data
            /\ \E r \in Responses(store, 3) :
                  query' = [op |-> "api_agent_search", msg |-> data, raised |-> FALSE,
                            response |-> r,
                            result |-> api_agent_search(TRUE, data, FALSE, search(r))]
    /\ UNCHANGED <<notifyVars, stageVars, synthVars, store, constructions, populations, last_init,
                   errors, matchVars, mergeVars, analyzeVars, raceVars, verifyVars>>

VectorNext == Construct \/ GetEnrichment \/ Search \/ ApiAgentSearch

SpecVector == VectorInit /\ [][VectorNext]_vars

\* ------------------------------------- constructors running concurrently
MaxProcs == 3

Procs == 1..MaxProcs

RaceInit ==
    /\ store \in {EmptyStore, collection_add(EmptyStore, population)}
    /\ rpc = [p \in Procs |-> "start"]
    /\ saw_empty = [p \in Procs |-> FALSE]
    /\ inserted = [p \in Procs |-> FALSE]
    /\ constructions = 0
    /\ populations = 0
    /\ last_init = None
    /\ query = None
    /\ errors = <<>>
    /\ MatchIdle
    /\ MergeIdle
    /\ AnalyzeIdle
    /\ VerifyIdle
    /\ SynthIdle
    /\ StageIdle
    /\ NotifyIdle

\* chromadb.PersistentClient(path) and client.get_or_create_collection(...)
RaceOpen(p) ==
    /\ rpc[p] = "start"
    /\ rpc' = [rpc EXCEPT ![p] = "opened"]
    /\ UNCHANGED <<notifyVars, stageVars, synthVars, store, saw_empty, inserted, constructions, populations, last_init,
                   query, errors, matchVars, mergeVars, analyzeVars, verifyVars>>

\* `if self.collection.count() == 0:`
RaceCount(p) ==
    /\ rpc[p] = "opened"
    /\ saw_empty' = [saw_empty EXCEPT ![p] = needs_population(store)]
    /\ rpc' = [rpc EXCEPT ![p] = IF needs_population(store) THEN "populating"
                                 ELSE "loaded"]
    /\ UNCHANGED <<notifyVars, stageVars, synthVars, store, inserted, constructions, populations, last_init,
                   query, errors, matchVars, mergeVars, analyzeVars, verifyVars>>

\* self._populate_knowledge_base(): one collection.add of the whole catalog.
RacePopulate(p) ==
    /\ rpc[p] = "populating"
    /\ \E outcome \in AddOutcomes(store, population) :
         IF outcome = "returns"
         THEN /\ store' = collection_add(store, population)
              /\ inserted' = [inserted EXCEPT ![p] = TRUE]
              /\ rpc' = [rpc EXCEPT ![p] = "populated"]
         ELSE /\ store' = store
              /\ inserted' = inserted
              /\ rpc' = [rpc EXCEPT ![p] = "failed"]
    /\ populations' = populations + 1
    /\ UNCHANGED <<notifyVars, stageVars, synthVars, saw_empty, constructions, last_init,
                   query, errors, matchVars, mergeVars, analyzeVars, verifyVars>>

RaceNext == \E p \in Procs : RaceOpen(p) \/ RaceCount(p) \/ RacePopulate(p)

SpecRace == RaceInit /\ [][RaceNext]_vars

\* ---------------------------------------------- analyze, step by step
\* The collaborators' behaviour in one call, fixed when the call starts.
StageCalls ==
    [error_details : {ErrorDetails(NoneMsg), ErrorDetails(Msg(<<"a">>))},
     q_enrich : {Raises, Ranking("v1", "v2", 650)},
     q_search : {Raises, Ranking("v1", "v2", 650)},
     ai : {[raises |-> TRUE, lines |-> <<>>],
           [raises |-> FALSE, lines |-> <<TextLine>>],
           [raises |-> FALSE, lines |-> <<JsonLine(JList)>>],
           [raises |-> FALSE, lines |-> <<JsonLine(JObj(AiFull))>>]},
     fc : {[raises |-> TRUE, lines |-> <<>>],
           [raises |-> FALSE, lines |-> <<JsonLine(JObj(FcFull))>>]}]

StageInit ==
    /\ errors \in {<<>>, <<EntryConn>>, <<EntryConn, EntryOverflow>>}
    /\ errors_loaded = errors
    /\ vector_up \in BOOLEAN
    /\ fact_checker_up \in BOOLEAN
    /\ call \in StageCalls
    /\ locals = None
    /\ report = None
    /\ apc = "off"
    /\ stage = "regex"
    /\ trace = <<>>
    /\ ai_calls = 0
    /\ fc_calls = 0
    /\ fc_given = None
    /\ MatchIdle
    /\ MergeIdle
    /\ StoreIdle
    /\ RaceIdle
    /\ VerifyIdle
    /\ SynthIdle
    /\ NotifyIdle

StageMsg == call.error_details.primary_error_message

\* What steps 1 to 3 compute in this call.
StageEnriched ==
    analyze_enrich(errors, vector_up, call.error_details, call.q_enrich, call.q_search)

\* Step 1: kb_enrichment = self.knowledge_base.get_enrichment(primary_error)
StageRegex ==
    /\ stage = "regex"
    /\ trace' = Append(trace, "regex")
    /\ IF match_error(errors, StageMsg) = Raised
       THEN locals' = locals /\ stage' = "raised"
       ELSE /\ locals' = [kb_enrichment |-> kb_get_enrichment(errors, StageMsg)]
            /\ stage' = "semantic"
    /\ UNCHANGED <<notifyVars, errors, errors_loaded, vector_up, fact_checker_up, call, report, apc,
                   ai_calls, fc_calls, fc_given, matchVars, mergeVars, storeVars,
                   raceVars, verifyVars, synthVars>>

\* Step 2: the two calls of the vector knowledge base inside one try block.
StageSemantic ==
    /\ stage = "semantic"
    /\ trace' = Append(trace, "semantic")
    /\ locals' = Put(Put(locals, "vector_enrichment", StageEnriched.vector_enrichment),
                     "vector_matches", StageEnriched.vector_matches)
    /\ stage' = "merge"
    /\ UNCHANGED <<notifyVars, errors, errors_loaded, vector_up, fact_checker_up, call, report, apc,
                   ai_calls, fc_calls, fc_given, matchVars, mergeVars, storeVars,
                   raceVars, verifyVars, synthVars>>

\* Step 3: merged_kb = self._merge_kb_enrichments(kb_enrichment, vector_enrichment)
StageMerge ==
    /\ stage = "merge"
    /\ trace' = Append(trace, "merge")
    /\ locals' = Put(locals, "merged_kb",
                     merge_kb_enrichments(locals.kb_enrichment, locals.vector_enrichment))
    /\ errors' = errors_after_merge(errors, StageMsg, locals.kb_enrichment,
                                    locals.vector_enrichment)
    /\ stage' = "synthesis"
    /\ UNCHANGED <<notifyVars, errors_loaded, vector_up, fact_checker_up, call, report, apc,
                   ai_calls, fc_calls, fc_given, matchVars, mergeVars, storeVars,
                   raceVars, verifyVars, synthVars>>

\* Step 4: ai_analysis = self._get_ai_analysis(error_details, merged_kb)
StageSynthesis ==
    /\ stage = "synthesis"
    /\ trace' = Append(trace, "synthesis")
    /\ ai_calls' = ai_calls + synthesis_invocations(call.ai)
    /\ locals' = Put(locals, "ai_analysis",
                     get_ai_analysis(call.error_details, locals.merged_kb, call.ai))
    /\ stage' = "report_merge"
    /\ UNCHANGED <<notifyVars, errors, errors_loaded, vector_up, fact_checker_up, call, report, apc,
                   fc_calls, fc_given, matchVars, mergeVars, storeVars,
                   raceVars, verifyVars, synthVars>>

\* Step 5: result = self._merge_analysis(error_details, merged_kb, ai_analysis)
StageReportMerge ==
    /\ stage = "report_merge"
    /\ trace' = Append(trace, "report_merge")
    /\ IF merge_analysis_raises(locals.ai_analysis)
       THEN locals' = locals /\ stage' = "raised"
       ELSE /\ locals' = Put(locals, "result",
                             merge_analysis(call.error_details, locals.merged_kb,
                                            locals.ai_analysis.v))
            /\ stage' = "fact_check"
    /\ UNCHANGED <<notifyVars, errors, errors_loaded, vector_up, fact_checker_up, call, report, apc,
                   ai_calls, fc_calls, fc_given, matchVars, mergeVars, storeVars,
                   raceVars, verifyVars, synthVars>>

\* Step 6: verification = self.fact_checker.verify(error_details, result,
\* vector_matches) when there is a fact checker, the defaults otherwise.
StageFactCheck ==
    /\ stage = "fact_check"
    /\ trace' = Append(trace, "fact_check")
    /\ IF fact_checker_up
       THEN /\ fc_given' = locals.result
            /\ fc_calls' = fc_calls + verify_invocations(call.error_details, call.fc)
       ELSE fc_given' = fc_given /\ fc_calls' = fc_calls
    /\ locals' = Put(locals, "result",
                     fact_check_step(fact_checker_up, call.error_details, locals.result,
                                     locals.vector_matches, call.fc))
    /\ stage' = "similar"
    /\ UNCHANGED <<notifyVars, errors, errors_loaded, vector_up, fact_checker_up, call, report, apc,
                   ai_calls, matchVars, mergeVars, storeVars,
                   raceVars, verifyVars, synthVars>>

\* Step 7 and the return.
StageSimilar ==
    /\ stage = "similar"
    /\ trace' = Append(trace, "similar")
    /\ report' = attach_similar(locals.result, locals.vector_matches)
    /\ stage' = "returned"
    /\ UNCHANGED <<notifyVars, errors, errors_loaded, vector_up, fact_checker_up, call, locals, apc,
                   ai_calls, fc_calls, fc_given, matchVars, mergeVars, storeVars,
                   raceVars, verifyVars, synthVars>>

StageNext ==
    \/ StageRegex \/ StageSemantic \/ StageMerge \/ StageSynthesis
    \/ StageReportMerge \/ StageFactCheck \/ StageSimilar

SpecStages == StageInit /\ [][StageNext]_vars

\* ------------------------------------------- the paths that send reports
MaxRuns == 2
MaxTriggers == 3

\* Pipeline runs, by run id; get_failed_pipeline_runs lists them in this order.
Runs == 1..MaxRuns

\* Processing a run (get_error_details, analyze, run_checks,
\* get_pipeline_history, build_report) raises, or gives an analysis whose
\* confidence_score is one analyze can return: 0.4 (from the fact-check
\* model's answer) or 0.9.
AnalysisScores == {400, 900}

RunOutcomes ==
    {[raises |-> TRUE, confidence_score |-> 0]}
    \cup {[raises |-> FALSE, confidence_score |-> sc] : sc \in AnalysisScores}

\* The calls of notifier.send_diagnostic_report made while processing run r
\* on the given path: one with the report of its analysis, none when the
\* processing raised before it.
process_run(outcome, r, path) ==
    IF outcome[r].raises THEN <<>>
    ELSE <<[run_id |-> r, confidence_score |-> outcome[r].confidence_score,
            path |-> path]>>

\* `for run in failures:` with the try / except around each run.
RECURSIVE scan_failures(_, _, _, _)
scan_failures(outcome, failures, r, path) ==
    IF r > MaxRuns THEN <<>>
    ELSE (IF r \in failures THEN process_run(outcome, r, path) ELSE <<>>)
           \o scan_failures(outcome, failures, r + 1, path)

\* get_failed_pipeline_runs(hours_back = LOOKBACK_HOURS)
get_failed_pipeline_runs(state) == {r \in DOMAIN state : state[r] = "failed"}

NotifyInit ==
    /\ run_state = [r \in Runs |-> "ok"]
    /\ run_outcome \in [Runs -> RunOutcomes]
    /\ sent = <<>>
    /\ triggers = 0
    /\ last_scan = None
    /\ errors = <<>>
    /\ MatchIdle
    /\ MergeIdle
    /\ AnalyzeIdle
    /\ StoreIdle
    /\ RaceIdle
    /\ VerifyIdle
    /\ SynthIdle
    /\ StageIdle

\* A pipeline run fails in the data factory.
PipelineFails(r) ==
    /\ run_state[r] = "ok"
    /\ run_state' = [run_state EXCEPT ![r] = "failed"]
    /\ UNCHANGED <<run_outcome, sent, triggers, last_scan, errors, matchVars, mergeVars,
                   analyzeVars, storeVars, raceVars, verifyVars, synthVars, stageVars>>

\* Time passes: a failed run is older than the lookback window.
LeavesWindow(r) ==
    /\ run_state[r] = "failed"
    /\ run_state' = [run_state EXCEPT ![r] = "aged"]
    /\ UNCHANGED <<run_outcome, sent, triggers, last_scan, errors, matchVars, mergeVars,
                   analyzeVars, storeVars, raceVars, verifyVars, synthVars, stageVars>>

\* The else branch of _run_analysis_and_notify (no run_id): every failure of
\* the lookback window is processed, or the query for them raises.
ScanBranch(path) ==
    \/ /\ sent' = sent \o scan_failures(run_outcome, get_failed_pipeline_runs(run_state),
                                         1, path)
       /\ last_scan' =
             [failures |-> get_failed_pipeline_runs(run_state),
              reported |-> {r \in get_failed_pipeline_runs(run_state) :
                              process_run(run_outcome, r, path) # <<>>}]
    \/ /\ sent' = sent
       /\ last_scan' = last_scan

\* The branch of _run_analysis_and_notify for a given run_id, and the other
\* single-run paths: the run is analysed and its report sent, unless an
\* exception ends the handler first.
SingleRun(r, path) ==
    /\ sent' = sent \o process_run(run_outcome, r, path)
    /\ last_scan' = last_scan

\* adf_failure_scanner(timer): _run_analysis_and_notify()
TimerScan ==
    /\ triggers < MaxTriggers
    /\ triggers' = triggers + 1
    /\ ScanBranch("timer")
    /\ UNCHANGED <<run_state, run_outcome, errors, matchVars, mergeVars,
                   analyzeVars, storeVars, raceVars, verifyVars, synthVars, stageVars>>

\* adf_alert_trigger(req): the payload names a failed run, or no run id can
\* be extracted from it and the handler scans.
AlertTrigger ==
    /\ triggers < MaxTriggers
    /\ triggers' = triggers + 1
    /\ \/ \E r \in Runs : run_state[r] # "ok" /\ SingleRun(r, "alert")
       \/ ScanBranch("alert")
    /\ UNCHANGED <<run_state, run_outcome, errors, matchVars, mergeVars,
                   analyzeVars, storeVars, raceVars, verifyVars, synthVars, stageVars>>

\* dashboard: POST /api/send-report/<run_id>
ApiSendReport ==
    /\ triggers < MaxTriggers
    /\ triggers' = triggers + 1
    /\ \E r \in Runs : run_state[r] # "ok" /\ SingleRun(r, "dashboard")
    /\ UNCHANGED <<run_state, run_outcome, errors, matchVars, mergeVars,
                   analyzeVars, storeVars, raceVars, verifyVars, synthVars, stageVars>>

\* cli: debug <run_id> --send-email (without the flag nothing is sent)
CliDebug ==
    /\ triggers < MaxTriggers
    /\ triggers' = triggers + 1
    /\ \E r \in Runs, send_email \in BOOLEAN :
          /\ run_state[r] # "ok"
          /\ IF send_email THEN SingleRun(r, "cli")
             ELSE sent' = sent /\ last_scan' = last_scan
    /\ UNCHANGED <<run_state, run_outcome, errors, matchVars, mergeVars,
                   analyzeVars, storeVars, raceVars, verifyVars, synthVars, stageVars>>

NotifyNext ==
    \/ \E r \in Runs : PipelineFails(r) \/ LeavesWindow(r)
    \/ TimerScan \/ AlertTrigger \/ ApiSendReport \/ CliDebug

SpecNotify == NotifyInit /\ [][NotifyNext]_vars

\* ------------------------- prompt building and fallback on their own
MaxPromptMsgLen == 2001
MaxFallbackSols == 7

\* A message of n characters.
LongText(n) == [i \in 1..n |-> "a"]

PromptMsgLens == {0, 1, 300, 301, PROMPT_MESSAGE_CAP - 1, PROMPT_MESSAGE_CAP,
                  MaxPromptMsgLen}

\* Failure records: with a message of each length, with None for it, and
\* without the key.
SynthDetails ==
    {ErrorDetails(Msg(LongText(n))) : n \in PromptMsgLens}
    \cup {ErrorDetails(NoneMsg),
          [pipeline_name |-> "p1", run_id |-> "r1", failing_activity_name |-> "act1",
           failing_activity_type |-> "Copy", primary_error_code |-> "2108"]}

Numbered(prefix, n) == [i \in 1..n |-> prefix \o ToString(i)]

\* A catalog entry with nsols solutions and ncauses causes.
SynthEntry(nsols, ncauses, category) ==
    [id |-> "e1", title |-> "t1", description |-> "d1", pattern |-> Lit(<<"a">>),
     category |-> category, severity |-> "high",
     common_causes |-> Numbered("c", ncauses),
     solutions |-> Numbered("s", nsols),
     estimated_fix_time |-> "30 min", docs |-> <<"u1">>]

\* A semantic catalog entry with nsols solutions.
SynthVectorEntry(nsols) ==
    [id |-> "v9", category |-> "timeout", severity |-> "critical",
     title |-> "vt9", error_pattern |-> "vp9", description |-> "vd9",
     causes |-> <<"c7", "c8", "c9">>, solutions |-> Numbered("s", nsols),
     prevention |-> <<"pv9">>,
     estimated_fix_time |-> "1 hour", documentation |-> <<"u9">>]

\* Enrichments as analyze hands them on: {}, the regex enrichment of no match
\* and of a matched entry, the semantic enrichment of a matched entry.
SynthEnrichments ==
    {<<>>, kb_get_enrichment(<<>>, Msg(<<"a">>))}
    \cup {kb_get_enrichment(<<SynthEntry(nsols, ncauses, category)>>, Msg(<<"a">>)) :
            nsols \in {0, 1, 5} \cup 6..MaxFallbackSols, ncauses \in {0, 1, 3, 4},
            category \in {"connectivity", "timeout", "resource", "quota"}}
    \cup {enrichment_of([entry |-> SynthVectorEntry(nsols), similarity |-> 650,
                         distance |-> 350],
                        <<[entry |-> SynthVectorEntry(nsols), similarity |-> 650,
                           distance |-> 350]>>) :
            nsols \in {3, 6}}

SynthInit ==
    /\ syn_call \in [error_details : SynthDetails, kb_enrichment : SynthEnrichments]
    /\ syn_out = None
    /\ syn_pc = "ready"
    /\ errors = <<>>
    /\ MatchIdle
    /\ MergeIdle
    /\ AnalyzeIdle
    /\ StoreIdle
    /\ RaceIdle
    /\ VerifyIdle
    /\ StageIdle
    /\ NotifyIdle

\* prompt = self._build_prompt(error_details, kb_enrichment)
BuildPrompt ==
    /\ syn_pc = "ready"
    /\ syn_out' = [op |-> "build_prompt",
                   result |-> build_prompt(syn_call.error_details, syn_call.kb_enrichment)]
    /\ syn_pc' = "done"
    /\ UNCHANGED <<notifyVars, stageVars, syn_call, errors, matchVars, mergeVars, analyzeVars, storeVars,
                   raceVars, verifyVars>>

\* self._fallback_analysis(error_details, kb_enrichment)
FallbackAnalysis ==
    /\ syn_pc = "ready"
    /\ syn_out' = [op |-> "fallback_analysis",
                   result |-> fallback_analysis(syn_call.error_details,
                                                syn_call.kb_enrichment)]
    /\ syn_pc' = "done"
    /\ UNCHANGED <<notifyVars, stageVars, syn_call, errors, matchVars, mergeVars, analyzeVars, storeVars,
                   raceVars, verifyVars>>

SynthNext == BuildPrompt \/ FallbackAnalysis

SpecSynthesis == SynthInit /\ [][SynthNext]_vars

\* ================================================ properties: analyze
Called == apc \in {"returned", "raised"}

\* C1: after any sequence of analyze calls every entry of the regex catalog
\* still has the lists it had when loaded (the semantic catalog
\* ADF_ERROR_KNOWLEDGE is a literal no operation assigns to).
C1_CatalogNeverMutated == errors = errors_loaded

\* C2: whatever the vector store, the synthesis model and the fact-check model
\* do, analyze returns a report: no exception leaves it.
C2_NoExceptionPropagates == apc # "raised"

\* The synthesis model answered with a JSON object that has the fields of the
\* schema.
AiResponseUsable ==
    /\ ~call.ai.raises
    /\ LET parsed == json_loads(strip_fences(call.ai.lines))
       IN /\ parsed.ok
          /\ parsed.value.py = "dict"
          /\ SchemaFields \subseteq DOMAIN parsed.value.v

FallbackFields == {"plain_english_error", "root_cause", "category", "severity",
                   "solutions"}

\* C3: when the synthesis call raises or its response is not a JSON object of
\* the expected shape, the report carries the fallback analysis built from the
\* merged enrichment.
C3_FallbackOnUnusableResponse ==
    Called /\ ~AiResponseUsable =>
      /\ apc = "returned"
      /\ \A f \in FallbackFields :
            report[f] = fallback_analysis(call.error_details, locals.merged_kb)[f]

\* C4: when the synthesis call raises, the report has a non-empty
\* plain_english_error, category and severity and at least one solution.
C4_FallbackComplete ==
    Called /\ call.ai.raises =>
      /\ apc = "returned"
      /\ ~TextEmpty(report.plain_english_error)
      /\ report.category # ""
      /\ report.severity # ""
      /\ Len(report.solutions) >= 1

\* ================================================== properties: the merge
RegexMatched == Get(regex_kb0, "pattern_matched", FALSE)
VectorMatched == Get(vector_kb, "pattern_matched", FALSE)
Merged == mpc \in {"once", "twice"}

\* C5: in the three non-overlapping cases the merge returns its input
\* unchanged: the regex enrichment when neither matched or only the regex one
\* did, the semantic enrichment when only the semantic one did; the result has
\* exactly the keys and values of that input.
C5_MergeIdentity ==
    Merged =>
      /\ (~RegexMatched /\ ~VectorMatched =>
            merged = regex_kb0 /\ DOMAIN merged = DOMAIN regex_kb0)
      /\ (VectorMatched /\ ~RegexMatched =>
            merged = vector_kb /\ DOMAIN merged = DOMAIN vector_kb)
      /\ (RegexMatched /\ ~VectorMatched =>
            merged = regex_kb0 /\ DOMAIN merged = DOMAIN regex_kb0)

C5_Witness ==
    /\ mpc = "once" /\ VectorMatched /\ ~RegexMatched
    /\ merged = vector_kb /\ "similar_errors" \in DOMAIN merged

NoDuplicates(lst) == \A i, j \in DOMAIN lst : lst[i] = lst[j] => i = j

\* The elements of lst that are not in seen, each once, in order of first
\* occurrence.
RECURSIVE FirstNew(_, _)
FirstNew(lst, seen) ==
    IF lst = <<>> THEN <<>>
    ELSE IF Head(lst) \in seen THEN FirstNew(Tail(lst), seen)
    ELSE <<Head(lst)>> \o FirstNew(Tail(lst), seen \cup {Head(lst)})

\* C6: when both enrichments matched, the merged known_solutions is the regex
\* solutions in their order followed by the semantic solutions not already
\* present, in semantic order, and no string occurs twice in the result.
C6_MergedSolutions ==
    Merged /\ RegexMatched /\ VectorMatched =>
      /\ merged.known_solutions =
            regex_kb0.known_solutions
              \o FirstNew(vector_kb.known_solutions, Elems(regex_kb0.known_solutions))
      /\ NoDuplicates(merged.known_solutions)

RegexOwnedFields == {"pattern_matched", "error_entry", "category", "severity",
                     "known_causes", "runbook", "estimated_fix_time",
                     "documentation_links"}

C8_MergeDeterministic ==
    mpc = "twice" => merged_again = merged

C8_Witness ==
    /\ mpc = "twice" /\ RegexMatched /\ VectorMatched
    /\ Len(merged.known_solutions) > Len(regex_kb0.known_solutions)
    /\ merged_again.known_solutions = merged.known_solutions

\* ====================================== properties: the regex matcher
\* The match count of catalog entry j on the message: 0 for a pattern that
\* does not compile.
Score(j) ==
    LET pattern == Get(errors[j], "pattern", EmptyPattern)
    IN IF pattern.valid THEN findall_count(pattern, message.text) ELSE 0

\* C9: match_error returns the entry with the highest match count, and among
\* entries with that count the earliest in catalog order.
C9_HighestCountEarliest ==
    kpc = "done" /\ best_match # 0 =>
      /\ best_match \in DOMAIN errors
      /\ Score(best_match) >= 1
      /\ \A j \in DOMAIN errors : Score(j) <= Score(best_match)
      /\ \A j \in 1..(best_match - 1) : Score(j) < Score(best_match)

\* Entry 1 matches once, entries 2 and 3 match twice each: entry 2 wins.
C9_Witness ==
    /\ kpc = "done" /\ Len(errors) = 3
    /\ Score(1) = 1 /\ Score(2) = 2 /\ Score(3) = 2
    /\ best_match = 2

DefaultEnrichment ==
    [pattern_matched |-> FALSE, error_entry |-> None, runbook |-> None,
     category |-> "unknown", known_causes |-> <<>>, known_solutions |-> <<>>,
     severity |-> "medium", estimated_fix_time |-> "unknown",
     documentation_links |-> <<>>]

\* C10: match_error returns None exactly when the message is empty or absent
\* or no entry matches at least once, get_enrichment then reports
\* pattern_matched = False with the default fields, and the lookup never
\* raises.
C10_NoneAndDefaults ==
    kpc \in {"done", "raised"} =>
      /\ kpc = "done"
      /\ best_match = 0 <=>
            (message.is_none \/ message.text = <<>>
               \/ \A j \in DOMAIN errors : Score(j) = 0)
      /\ best_match = 0 => enrichment = DefaultEnrichment
      /\ best_match # 0 => enrichment.pattern_matched

\* The catalog without the entries whose pattern is not a regular expression.
Compiles(e) == Get(e, "pattern", EmptyPattern).valid
Removed == SelectSeq(errors, Compiles)

\* C11: an entry whose pattern is not a valid regular expression is skipped:
\* the lookup returns, and what match_error returns is what it returns on the
\* catalog with those entries removed.
C11_InvalidSkipped ==
    kpc \in {"done", "raised"} =>
      /\ kpc = "done"
      /\ LET r == match_error(Removed, message)
         IN IF r = 0 THEN best_match = 0
            ELSE best_match # 0 /\ errors[best_match] = Removed[r]

\* ================================== properties: the semantic matcher
\* The results of the latest query that the catalog knows, nearest first, and
\* the similarity (1 - distance) of the first.
TopHits == SelectSeq(query.response, LAMBDA r : r.id \in CatalogIds)
TopSimilarity == 1000 - TopHits[1].distance
TopEntry == CHOOSE e \in Elems(ADF_ERROR_KNOWLEDGE) : e.id = TopHits[1].id

Enriched == query # None /\ query.op = "get_enrichment" /\ ~query.raised

\* C12: get_enrichment reports pattern_matched = True iff the top-1 search
\* result has similarity >= 0.30; below the floor the result has
\* pattern_matched = False and the closest title and nothing else.
C12_SemanticFloor ==
    Enriched =>
      /\ query.result.pattern_matched <=>
            (~Falsy(query.msg) /\ TopHits # <<>> /\ TopSimilarity >= 300)
      /\ (~Falsy(query.msg) /\ TopHits # <<>> /\ TopSimilarity < 300) =>
            /\ DOMAIN query.result = {"pattern_matched", "closest_match"}
            /\ query.result.closest_match = TopEntry.title
      /\ ~query.result.pattern_matched =>
            DOMAIN query.result \cap {"category", "severity", "known_causes",
                                      "known_solutions", "error_entry"} = {}

\* A top result at exactly 0.30 is accepted with the entry's fields.
C12_Witness ==
    /\ Enriched /\ TopHits # <<>> /\ TopSimilarity = 300
    /\ query.result.pattern_matched
    /\ query.result.category = TopEntry.category
    /\ query.result.known_solutions = TopEntry.solutions

\* C13: a construction (one that opened the store) populates iff it found the
\* collection empty; after a
\* population the collection holds one document per catalog id and nothing
\* else; a construction over a collection that has documents leaves it as it
\* was, however often it is repeated.
C13_PopulationIdempotent ==
    constructions >= 1 /\ last_init.opened =>
      /\ ~last_init.raised
      /\ last_init.populated <=> last_init.found = EmptyStore
      /\ last_init.populated =>
            /\ DOMAIN store = CatalogIds
            /\ count(store) = Len(ADF_ERROR_KNOWLEDGE)
            /\ \A id \in CatalogIds : store[id].id = id
      /\ ~last_init.populated => store = last_init.found
      /\ populations <= 1

\* Started on an empty collection: the first construction populated, the
\* second did not.
C13_Witness ==
    /\ constructions = 2 /\ populations = 1 /\ last_init.opened
    /\ ~last_init.populated /\ last_init.found = store
    /\ DOMAIN store = CatalogIds

\* C14: no two constructors both find the collection empty and both insert
\* the catalog.
C14_PopulationGuarded ==
    \A p, q \in DOMAIN rpc :
       p # q => ~(saw_empty[p] /\ saw_empty[q] /\ inserted[p] /\ inserted[q])

\* ===================================== properties: the fact checker
\* verify took the heuristic path.
OnFallback ==
    /\ fpc \in {"done", "gated"}
    /\ Get(verification, "verification_method", "") = "knowledge_base_fallback"

\* The score of the heuristic as the specification words it, in exact
\* thousandths.
FirstSimilarity ==
    IF fv_call.kb_matches = <<>> THEN 0 ELSE fv_call.kb_matches[1].similarity
BaseScore ==
    IF FirstSimilarity > 600 THEN 850
    ELSE IF FirstSimilarity > 400 THEN 700
    ELSE IF FirstSimilarity > 300 THEN 600
    ELSE 500
Capped(x) == IF x > 950 THEN 950 ELSE x
HasContent ==
    /\ \E i \in DOMAIN fv_call.analysis.root_cause : fv_call.analysis.root_cause[i] # ""
    /\ Len(fv_call.analysis.solutions) >= 1
CategoryConfirmed ==
    /\ fv_call.kb_matches # <<>>
    /\ fv_call.kb_matches[1].entry.category = fv_call.analysis.category
ContentScore == IF HasContent THEN Capped(BaseScore + 100) ELSE BaseScore
ExpectedScore == IF CategoryConfirmed THEN Capped(ContentScore + 100) ELSE ContentScore

LowConfidenceFlagged ==
    \E i \in DOMAIN verification.flagged_issues :
       verification.flagged_issues[i] = "Low confidence - manual review recommended"

\* C16: the fallback score is 0.5, or 0.85 / 0.70 / 0.60 for a first match
\* above 0.6 / 0.4 / 0.3, plus 0.1 for a report with root cause and solution,
\* plus 0.1 for a confirmed category, each sum capped at 0.95; the
\* low-confidence flag is there iff the score is at most 0.5.
C16_FallbackScore ==
    OnFallback =>
      /\ verification.confidence_score = ExpectedScore
      /\ LowConfidenceFlagged <=> verification.confidence_score <= 500

\* First match at 0.401 with content and confirmed category: 0.7 + 0.1 + 0.1.
C16_Witness ==
    /\ OnFallback /\ FirstSimilarity = 401 /\ HasContent /\ CategoryConfirmed
    /\ verification.confidence_score = 900
    /\ ~LowConfidenceFlagged

\* The call with the first match moved to similarity sim.
AtSimilarity(sim) ==
    <<[fv_call.kb_matches[1] EXCEPT !.similarity = sim, !.distance = 1000 - sim]>>
      \o Tail(fv_call.kb_matches)

\* C17: with report and category fixed a higher first-match similarity never
\* gives a lower fallback score, and the fallback score lies in [0, 0.95].
C17_FallbackMonotone ==
    OnFallback =>
      /\ verification.confidence_score >= 0
      /\ verification.confidence_score <= 950
      /\ fv_call.kb_matches # <<>> =>
            \A sim \in VerifySimilarities :
               sim >= FirstSimilarity =>
                 fallback_verification(fv_call.analysis, AtSimilarity(sim)).confidence_score
                   >= verification.confidence_score

\* The highest score: first match above 0.6 with both bonuses, capped.
C17_Witness ==
    /\ OnFallback /\ FirstSimilarity = 601 /\ HasContent /\ CategoryConfirmed
    /\ verification.confidence_score = 950

\* confidence_level as the mapping gives it.
LevelOf(score) ==
    IF score >= 800 THEN "high" ELSE IF score >= 600 THEN "medium" ELSE "low"

\* C18: in every report analyze returns, and in the verification it carries,
\* confidence_level is the level the mapping gives for confidence_score.
C18_LevelDerivedFromScore ==
    apc = "returned" =>
      /\ report.confidence_level = LevelOf(report.confidence_score)
      /\ "fact_check" \in DOMAIN report =>
            report.fact_check.confidence_level = LevelOf(report.fact_check.confidence_score)

VerifyFields == {"confidence_score", "confidence_level", "root_cause_accurate",
                 "solutions_applicable", "severity_correct", "corrections",
                 "flagged_issues"}

\* The JSON object the fact-check model returned, when verify used it.
FcObject == json_loads(strip_fences(fv_call.fc.lines)).value.v

\* C19: every result of verify has a confidence_score within [0, 1] and the
\* six other fields; a field the model's object lacks is 0.5, the derived
\* level, true, or an empty list.
C19_VerifyResultComplete ==
    fpc \in {"done", "gated"} =>
      /\ VerifyFields \subseteq DOMAIN verification
      /\ verification.confidence_score >= 0
      /\ verification.confidence_score <= 1000
      /\ ~OnFallback =>
            /\ "confidence_score" \notin DOMAIN FcObject =>
                  verification.confidence_score = 500
            /\ "confidence_level" \notin DOMAIN FcObject =>
                  verification.confidence_level = LevelOf(verification.confidence_score)
            /\ \A f \in {"root_cause_accurate", "solutions_applicable", "severity_correct"} :
                  f \notin DOMAIN FcObject => verification[f] = TRUE
            /\ \A f \in {"corrections", "flagged_issues"} :
                  f \notin DOMAIN FcObject => verification[f] = <<>>

\* ===================================== properties: analyze, continued
PrimaryError == call.error_details.primary_error_message

\* The semantic step of the latest analyze call ended in one of the three
\* degraded situations: no matcher, a query of the matcher raised, or the
\* matcher reported no match.
MatcherAbsent == ~vector_up
QueryRaised ==
    /\ vector_up
    /\ \/ ~Falsy(PrimaryError) /\ call.q_enrich.raises
       \/ call.q_search.raises
NoSemanticMatch ==
    /\ vector_up
    /\ ~Get(locals.vector_enrichment, "pattern_matched", FALSE)

\* The report analyze builds from the regex enrichment alone, for the same
\* answer of the synthesis model.
RegexOnlyReport ==
    merge_analysis(call.error_details, locals.kb_enrichment,
                   get_ai_analysis(call.error_details, locals.kb_enrichment, call.ai).v)

\* C15: with the matcher absent, a query raising or no semantic match, the
\* merged enrichment is the regex enrichment and the report's category,
\* severity, known_solutions and runbook are those of the regex-only report.
C15_DegradesToRegexOnly ==
    apc = "returned" /\ (MatcherAbsent \/ QueryRaised \/ NoSemanticMatch) =>
      /\ locals.merged_kb = locals.kb_enrichment
      /\ \A f \in {"category", "severity", "known_solutions", "runbook"} :
            report[f] = RegexOnlyReport[f]

\* No entry of the regex catalog matches the message of the latest call.
NoRegexMatch ==
    \/ Falsy(PrimaryError)
    \/ \A i \in DOMAIN errors_loaded :
          LET pattern == Get(errors_loaded[i], "pattern", EmptyPattern)
          IN ~pattern.valid \/ findall_count(pattern, PrimaryError.text) = 0

\* The semantic catalog has no match either: no matcher, or both its queries
\* answered with nothing at or above the floor.
NoVectorMatch ==
    \/ ~vector_up
    \/ /\ ~call.q_enrich.raises /\ ~call.q_search.raises
       /\ \A q \in {call.q_enrich, call.q_search} :
             q.response = <<>> \/ 1000 - q.response[1].distance < 300

\* Neither generative model is available.
NoAi == call.ai.raises /\ (~fact_checker_up \/ call.fc.raises)

\* C20: for a message no catalog entry matches and with no AI, analyze returns
\* category unknown, severity medium, the one manual-investigation solution,
\* confidence_score 0.5 and confidence_level medium.
C20_UnknownErrorReport ==
    apc \in {"returned", "raised"} /\ NoRegexMatch /\ NoVectorMatch /\ NoAi =>
      /\ apc = "returned"
      /\ report.category = "unknown"
      /\ report.severity = "medium"
      /\ Len(report.solutions) = 1
      /\ report.solutions[1].title = <<"Manual Investigation">>
      /\ report.confidence_score = 500
      /\ report.confidence_level = "medium"

\* ================================ properties: the report merge in analyze
\* What _get_ai_analysis returned in the latest call: the model's JSON object
\* or the fallback analysis.
AiAnalysis == locals.ai_analysis.v

ReportUrls == {report.documentation_links[i].url : i \in DOMAIN report.documentation_links}

\* C21: in the report category and severity are the synthesis result's when it
\* has them and the merged enrichment's otherwise, root_cause and solutions are
\* the synthesis result's, and the enrichment's known_solutions, runbook and
\* documentation links stand in the report in fields of their own.
C21_AiPriority ==
    apc = "returned" =>
      /\ \A f \in {"category", "severity"} :
            report[f] = IF f \in DOMAIN AiAnalysis THEN AiAnalysis[f]
                        ELSE Get(locals.merged_kb, f, IF f = "category" THEN "unknown" ELSE "medium")
      /\ \A f \in {"root_cause", "solutions"} :
            f \in DOMAIN AiAnalysis => report[f] = AiAnalysis[f]
      /\ report.known_solutions = Get(locals.merged_kb, "known_solutions", <<>>)
      /\ report.runbook = Get(locals.merged_kb, "runbook", None)
      /\ Elems(Get(locals.merged_kb, "documentation_links", <<>>)) \subseteq ReportUrls

\* The model answered in full on a matched entry: the report has the model's
\* category and solutions and, next to them, the entry's known solutions.
C21_Witness ==
    /\ apc = "returned" /\ AiResponseUsable
    /\ Get(locals.merged_kb, "pattern_matched", FALSE)
    /\ report.category = "authentication"
    /\ locals.merged_kb.category = "connectivity"
    /\ report.solutions = AiFull.solutions
    /\ report.known_solutions # <<>>
    /\ report.runbook # None
    /\ "u1" \in ReportUrls

\* =================== properties: prompt building and the fallback analysis
\* The number of characters of a text whose pieces are single characters and
\* the three-character ellipsis.
CharLen(text) == Len(text) + 2 * Cardinality({i \in DOMAIN text : text[i] = "..."})

Prompted == syn_pc = "done" /\ syn_out.op = "build_prompt"

\* C22: for a message of any length the primary_error_message of the prompt
\* context has at most 2000 characters.
C22_PromptMessageCapped ==
    Prompted => CharLen(syn_out.result.primary_error_message) <= 2000

\* ============================== properties: the fact checker, continued
\* C23: should_send_email returns true iff the dict has a confidence_score and
\* it is at least 0.5; a dict without a confidence_score gives false.
C23_SendIffConfident ==
    fpc = "gated" =>
      /\ gate.send <=>
            /\ "confidence_score" \in DOMAIN gate.verification
            /\ gate.verification.confidence_score >= 500
      /\ "confidence_score" \notin DOMAIN gate.verification => ~gate.send

\* A verification of verify with score exactly 0.5 passes the gate.
C23_Witness ==
    /\ fpc = "gated" /\ gate.verification = verification
    /\ verification.confidence_score = 500 /\ gate.send

\* ================================ properties: the agent search endpoint
AgentSearched == query # None /\ query.op = "api_agent_search"

\* C24: with the vector knowledge base available and a body that has "query"
\* the response is 200 with success and one top_matches element per match of
\* the search, carrying the title, description, solutions and severity of the
\* matched catalog entry; a body without "query" gives 400, an unavailable
\* knowledge base 503.
C24_AgentSearch ==
    AgentSearched =>
      LET res == query.result
          matches == search(query.response)
          has_query == query.msg # None /\ "query" \in DOMAIN query.msg
      IN /\ ~Constructed => res.status = 503
         /\ Constructed /\ ~has_query => res.status = 400
         /\ Constructed /\ has_query /\ ~query.raised =>
               /\ res.status = 200
               /\ res.json.success
               /\ Len(res.json.top_matches) = Len(matches)
               /\ Len(res.json.top_matches) <= 3
               /\ \A i \in DOMAIN matches :
                     /\ res.json.top_matches[i].title = matches[i].entry.title
                     /\ res.json.top_matches[i].description = matches[i].entry.description
                     /\ res.json.top_matches[i].solution = matches[i].entry.solutions
                     /\ res.json.top_matches[i].severity = matches[i].entry.severity

Fell == syn_pc = "done" /\ syn_out.op = "fallback_analysis"
FellOnMatch == Fell /\ Get(syn_call.kb_enrichment, "pattern_matched", FALSE)

\* What the fallback is built from: the enrichment's causes, solutions and
\* runbook steps.
KnownCauses == Get(syn_call.kb_enrichment, "known_causes", <<>>)
KnownSolutions == Get(syn_call.kb_enrichment, "known_solutions", <<>>)
RunbookSteps ==
    LET rb == Get(syn_call.kb_enrichment, "runbook", None)
    IN IF rb = None THEN <<>> ELSE Get(rb, "steps", <<>>)

\* The solutions of the fallback report are the runbook solution, when the
\* runbook has steps, with the first 8 of them, then the first 5 known
\* solutions, the first marked high and the others medium; 6 at most.
FallbackSolutionsAsStated ==
    LET sols == syn_out.result.solutions
        lead == IF RunbookSteps # <<>> THEN 1 ELSE 0
        kept == IF Len(KnownSolutions) < 5 THEN Len(KnownSolutions) ELSE 5
    IN /\ Len(sols) = lead + kept
       /\ Len(sols) <= 6
       /\ lead = 1 =>
             /\ sols[1].title[1] = "Follow Runbook: "
             /\ Len(sols[1].steps) <= 8
             /\ sols[1].steps = SubSeq(RunbookSteps, 1, Len(sols[1].steps))
             /\ Len(sols[1].steps) < 8 => sols[1].steps = RunbookSteps
       /\ \A i \in 1..kept :
             /\ sols[lead + i].title = <<KnownSolutions[i]>>
             /\ sols[lead + i].likelihood = IF i = 1 THEN "high" ELSE "medium"

FirstThreeCauses == SubSeq(KnownCauses, 1, IF Len(KnownCauses) < 3 THEN Len(KnownCauses) ELSE 3)

\* C25 as stated: on a matched enrichment the fallback's root cause is the
\* first three known causes joined by ". ", and its solutions are the runbook
\* solution (at most 8 steps) followed by at most 5 known solutions, high then
\* medium, never more than 6.
C25_FallbackFromEntry ==
    FellOnMatch =>
      /\ syn_out.result.root_cause = Join(FirstThreeCauses, ". ")
      /\ FallbackSolutionsAsStated

\* C25 amended: the same, with the root cause being the text
\* "See known causes above" when the joined causes are the empty string (the
\* enrichment has no known causes).
C25_FallbackFromEntryAmended ==
    FellOnMatch =>
      /\ syn_out.result.root_cause =
            IF TextEmpty(Join(FirstThreeCauses, ". ")) THEN <<"See known causes above">>
            ELSE Join(FirstThreeCauses, ". ")
      /\ FallbackSolutionsAsStated

\* Four causes, seven known solutions and a runbook of nine steps: three causes
\* joined, a runbook solution of eight steps and five known solutions.
C25_Witness ==
    /\ FellOnMatch
    /\ Len(KnownCauses) = 4 /\ Len(KnownSolutions) = 7 /\ Len(RunbookSteps) = 9
    /\ syn_out.result.root_cause = <<"c1", ". ", "c2", ". ", "c3">>
    /\ Len(syn_out.result.solutions) = 6
    /\ Len(syn_out.result.solutions[1].steps) = 8
    /\ syn_out.result.solutions[6].title = <<"s5">>

\* ======================================== properties: the order of steps
StageOrder == <<"regex", "semantic", "merge", "synthesis", "report_merge",
                "fact_check", "similar">>

\* The report step 5 built in this call.
MergedReport ==
    merge_analysis(call.error_details, locals.merged_kb, locals.ai_analysis.v)

\* C26: the steps of one analyze call run in the order regex match, semantic
\* match, enrichment merge, synthesis, report merge, fact-check, similar-error
\* attachment, one after the other; each model is called at most once; the
\* fact checker is given the merged report.
C26_StagesInOrder ==
    /\ Len(trace) <= Len(StageOrder)
    /\ trace = SubSeq(StageOrder, 1, Len(trace))
    /\ stage \in Elems(StageOrder) => stage = StageOrder[Len(trace) + 1]
    /\ stage = "returned" => trace = StageOrder
    /\ ai_calls <= 1
    /\ fc_calls <= 1
    /\ Len(trace) < 4 => ai_calls = 0
    /\ Len(trace) < 6 => fc_calls = 0 /\ fc_given = None
    /\ fc_given # None => fc_given = MergedReport

\* A call that ran all seven steps and consulted both models once.
C26_Witness ==
    /\ stage = "returned" /\ trace = StageOrder
    /\ ai_calls = 1 /\ fc_calls = 1
    /\ call.ai.raises
    /\ fc_given = MergedReport
    /\ "fact_check" \in DOMAIN report /\ "fact_check" \notin DOMAIN fc_given

\* ================================ properties: analyze, the two queries
\* C27: whenever the merged enrichment carries a semantic match, the list of
\* semantic matches handed to the fact checker is not empty and starts with
\* the entry the semantic enrichment was built from.
C27_EnrichmentMatchesConsistent ==
    apc = "returned" /\ "match_confidence" \in DOMAIN locals.merged_kb =>
      /\ locals.vector_matches # <<>>
      /\ locals.vector_matches[1].entry = locals.vector_enrichment.error_entry

\* The URLs of the report's documentation_links, in order.
ReportUrlList ==
    [i \in DOMAIN report.documentation_links |-> report.documentation_links[i].url]

\* C30: no URL occurs twice in the documentation_links of a report, and every
\* documentation URL of the merged enrichment occurs in it once.
C30_LinksListedOnce ==
    apc = "returned" =>
      /\ NoDuplicates(ReportUrlList)
      /\ \A u \in Elems(Get(locals.merged_kb, "documentation_links", <<>>)) :
            Cardinality({i \in DOMAIN ReportUrlList : ReportUrlList[i] = u}) = 1

\* ================================ properties: the paths that send reports
\* C28: on every path send_diagnostic_report is called only for an analysis
\* whose confidence_score is at least 0.5.
C28_SendOnlyIfConfident ==
    \A i \in DOMAIN sent : sent[i].confidence_score >= 500

\* C29: every failed run causes at most one diagnostic email, over all scans
\* and alert triggers, and in a scan a run whose processing fails does not
\* keep the other runs of the scan from being reported.
C29_OneEmailPerRun ==
    /\ \A r \in DOMAIN run_state :
          Cardinality({i \in DOMAIN sent :
                         sent[i].run_id = r /\ sent[i].path \in {"timer", "alert"}}) <= 1
    /\ last_scan # None =>
          \A r \in last_scan.failures :
             ~run_outcome[r].raises => r \in last_scan.reported

====
